---- MODULE Spec2Model ----
(***************************************************************************)
(* Shake&Tune signal-analysis core: belts comparison.                      *)
(*                                                                         *)
(* Frequencies, distances and thresholds are held as integers in "ticks":  *)
(* one Hz is Hz == 8 * (NumBins - 1) ticks, which makes every value that   *)
(* np.linspace, np.median and np.percentile produce on the grid exact.     *)
(* The MHI is held in units of 1 / MhiUnit, which makes the divisions by   *)
(* the number of paired peaks and by the highest PSD value exact.          *)
(***************************************************************************)
EXTENDS Integers, Sequences, FiniteSets, TLC

(* ------------------------------ bounds --------------------------------- *)
\* number of points of the common frequency grid (500 in the program)
NumBins == 4
\* largest number of peaks detected in one signal
MaxPeaks == 3
\* the largest factor the frequencies are multiplied by
MaxScale == 3
\* the largest number of capability checks made on one KlipperCompatibility
MaxChecks == 3
\* the largest number of graphs one GraphCreator creates
MaxGraphs == 2
\* the largest number of times detect_peaks is called on one signal
MaxDetections == 2
\* largest PSD amplitude of a grid point
MaxPsd == 2

\* largest number of measurements a computation is constructed with
MaxMeasurements == 3

\* the max_freq values (Hz) the computation is constructed with
MaxFreqs == {3, 12, 18}

VARIABLES
    pc,                 \* position of the computation
    max_freq,           \* BeltsComputation.max_freq
    peaks1, peaks2,     \* SignalData.peaks of signal1 / signal2
    psd1, psd2,         \* SignalData.psd of signal1 / signal2
    threshold,          \* local of _pair_peaks
    last_scan,          \* min_distance and pair of the last scan of _pair_peaks
    paired_peaks,       \* PeakPairingResult.paired_peaks
    unpaired_peaks1,    \* PeakPairingResult.unpaired_peaks1
    unpaired_peaks2,    \* PeakPairingResult.unpaired_peaks2
    similarity_factor,  \* argument of _compute_mhi
    mhi,                \* locals of _compute_mhi
    label,              \* the text _mhi_lut returns
    tool,               \* which computation runs: "belts", "shaper" or "static"
    measurements,       \* the measurements the computation is constructed with
    kinematics,         \* BeltsComputation.kinematics
    datas,              \* local of compute(): the samples that are not None
    backend,            \* what the shaper_calibrate module of Klipper answers
    selection,          \* locals of the recommendation loop of ShaperComputation.compute
    calls,              \* the find_best_shaper calls made so far
    titles,             \* the title lines ShaperPlotter._add_titles writes
    result,             \* the result compute() returns
    error,              \* the exception compute() raises
    capabilities,       \* KlipperCompatibility._capabilities
    toolhead,           \* the attributes of the toolhead object of Klipper
    res_tester,         \* the resonance tester object of Klipper, or None
    checks,             \* the capability checks made so far
    invoked,            \* the toolhead methods invoked so far
    output_target,      \* GraphCreator._output_target
    keep_raw_data,      \* ShakeTuneConfig.keep_raw_data
    files,              \* the files of the results folder
    steps,              \* the steps create_graph has run so far
    workers,            \* the computations that run side by side
    helpers             \* the ShaperCalibrate objects created so far

pairing_vars == <<threshold, last_scan, paired_peaks, unpaired_peaks1, unpaired_peaks2>>

signal_vars == <<max_freq, peaks1, peaks2, psd1, psd2>>

mhi_vars == <<similarity_factor, mhi, label>>

compute_vars == <<tool, measurements, kinematics, datas, backend, selection, calls, titles, result, error>>

compat_vars == <<capabilities, toolhead, res_tester, checks, invoked>>

creator_vars == <<output_target, keep_raw_data, files, steps>>

concurrent_vars == <<workers, helpers>>

vars == <<pc, signal_vars, pairing_vars, mhi_vars, compute_vars, compat_vars, creator_vars,
          concurrent_vars>>

(* ------------------------------ helpers -------------------------------- *)
None == "None"

\* a result, an exception or a set of titles that does not exist
Nothing == [type |-> "NoneType"]

\* no computation object: the function is called on its own
NoComputation ==
    /\ tool = None
    /\ measurements = <<>>
    /\ kinematics = None
    /\ datas = <<>>
    /\ backend = None
    /\ selection = None
    /\ calls = <<>>
    /\ titles = Nothing
    /\ result = Nothing
    /\ error = Nothing

\* a path that is not set
NoPath == [stem |-> None, suffix |-> None]

\* no KlipperCompatibility
NoCompat ==
    /\ capabilities = {}
    /\ toolhead = {}
    /\ res_tester = [none |-> TRUE, attrs |-> {}]
    /\ checks = <<>>
    /\ invoked = <<>>

\* no GraphCreator
NoCreator ==
    /\ output_target = NoPath
    /\ keep_raw_data = FALSE
    /\ files = {}
    /\ steps = <<>>

\* no KlipperCompatibility, no GraphCreator and one computation at a time:
\* compute() is called directly
NoService == NoCompat /\ NoCreator /\ workers = <<>> /\ helpers = <<>>

Bins == 0 .. (NumBins - 1)

\* ticks per Hz
Hz == 8 * (NumBins - 1)

Abs(x) == IF x < 0 THEN -x ELSE x

Min(a, b) == IF a < b THEN a ELSE b

Max(a, b) == IF a > b THEN a ELSE b

\* np.clip(x, lo, hi)
Clip(x, lo, hi) == Min(Max(x, lo), hi)

\* the ascending sequence of the members of a set of integers
RECURSIVE SeqOfSet(_)
SeqOfSet(S) ==
    IF S = {} THEN <<>>
    ELSE LET m == CHOOSE x \in S : \A y \in S : x <= y
         IN  <<m>> \o SeqOfSet(S \ {m})

\* the ascending index arrays detect_peaks can return: at most MaxPeaks bins
PeakArrays == {SeqOfSet(S) : S \in {T \in SUBSET Bins : Cardinality(T) <= MaxPeaks}}

\* np.linspace(0, max_freq, NumBins), in ticks
common_freqs(mf) == [i \in Bins |-> 8 * i * mf]

freqs1 == common_freqs(max_freq)

freqs2 == common_freqs(max_freq)

\* PSD curves of the grid: amplitude a on the even bins and MaxPsd - a on
\* the odd bins
PsdCurves == {[i \in Bins |-> IF i % 2 = 0 THEN a ELSE MaxPsd - a] : a \in 0 .. MaxPsd}

\* ndarray.max()
RECURSIVE ArrayMaxFrom(_, _)
ArrayMaxFrom(arr, i) ==
    IF i = NumBins - 1 THEN arr[i] ELSE Max(arr[i], ArrayMaxFrom(arr, i + 1))

ArrayMax(arr) == ArrayMaxFrom(arr, 0)

\* a measured spectrum is never identically zero
Spectra == {c \in PsdCurves : ArrayMax(c) > 0}

(* ------------------------- _pair_peaks: threshold ---------------------- *)
\* the nested loops that fill `distances`
PairwiseDistances(p1s, f1, p2s, f2) ==
    [k \in 1 .. (Len(p1s) * Len(p2s)) |->
        LET i == ((k - 1) \div Len(p2s)) + 1
            j == ((k - 1) % Len(p2s)) + 1
        IN  Abs(f1[p1s[i]] - f2[p2s[j]])]

\* insertion of x into an ascending sequence
RECURSIVE Insert(_, _)
Insert(x, s) ==
    IF s = <<>> THEN <<x>>
    ELSE IF x <= Head(s) THEN <<x>> \o s
    ELSE <<Head(s)>> \o Insert(x, Tail(s))

RECURSIVE Sorted(_)
Sorted(s) == IF s = <<>> THEN <<>> ELSE Insert(Head(s), Sorted(Tail(s)))

\* np.percentile(d, 25 * q4) with numpy's default linear interpolation:
\* virtual index q * (n - 1) in the sorted array, interpolated between the
\* two neighbours.  Exact, every distance being a multiple of 8 ticks.
Percentile(d, q4) ==
    LET a  == Sorted(d)
        n  == Len(a)
        k  == q4 * (n - 1)
        lo == (k \div 4) + 1
        r  == k % 4
        hi == Min(lo + 1, n)
    IN  ((4 - r) * a[lo] + r * a[hi]) \div 4

\* np.median(d)
Median(d) == Percentile(d, 2)

\* mutant of PairThreshold: the 10 Hz cap is forgotten
PairThresholdUncapped(distances) ==
    IF Len(distances) > 0
    THEN Percentile(distances, 2)
         + (3 * (Percentile(distances, 3) - Percentile(distances, 1))) \div 2
    ELSE 10 * Hz

PairThreshold(distances) ==
    IF Len(distances) > 0
    THEN LET median_distance == Median(distances)
             iqr == Percentile(distances, 3) - Percentile(distances, 1)
         IN  Min(median_distance + (3 * iqr) \div 2, 10 * Hz)
    ELSE 10 * Hz

(* ------------------------- _pair_peaks: the loop ----------------------- *)
\* one execution of the two nested for loops over the unmatched peaks:
\* the k-th combination in scan order and the ones after it
RECURSIVE ScanFrom(_, _, _, _, _, _, _)
ScanFrom(k, u1, u2, f1, f2, min_distance, pair) ==
    IF k > Len(u1) * Len(u2) THEN [min_distance |-> min_distance, pair |-> pair]
    ELSE LET p1 == u1[((k - 1) \div Len(u2)) + 1]
             p2 == u2[((k - 1) % Len(u2)) + 1]
             distance == Abs(f1[p1] - f2[p2])
         IN  IF distance < min_distance
             THEN ScanFrom(k + 1, u1, u2, f1, f2, distance, <<p1, p2>>)
             ELSE ScanFrom(k + 1, u1, u2, f1, f2, min_distance, pair)

\* mutant of Scan: a later combination at the same distance replaces the pair
RECURSIVE ScanFromLast(_, _, _, _, _, _, _)
ScanFromLast(k, u1, u2, f1, f2, min_distance, pair) ==
    IF k > Len(u1) * Len(u2) THEN [min_distance |-> min_distance, pair |-> pair]
    ELSE LET p1 == u1[((k - 1) \div Len(u2)) + 1]
             p2 == u2[((k - 1) % Len(u2)) + 1]
             distance == Abs(f1[p1] - f2[p2])
         IN  IF distance <= min_distance
             THEN ScanFromLast(k + 1, u1, u2, f1, f2, distance, <<p1, p2>>)
             ELSE ScanFromLast(k + 1, u1, u2, f1, f2, min_distance, pair)

ScanLastTie(u1, u2, f1, f2, thr) == ScanFromLast(1, u1, u2, f1, f2, thr + 1 * Hz - 1, None)

\* mutant of Scan: the scan starts from the threshold itself
ScanNoSentinel(u1, u2, f1, f2, thr) == ScanFrom(1, u1, u2, f1, f2, thr, None)

\* mutant of Scan: the scan starts one Hz below the threshold
ScanBelowThreshold(u1, u2, f1, f2, thr) == ScanFrom(1, u1, u2, f1, f2, thr - 1 * Hz, None)

\* min_distance = threshold + 1; pair = None; for p1 ...: for p2 ...
Scan(u1, u2, f1, f2, thr) == ScanFrom(1, u1, u2, f1, f2, thr + 1 * Hz, None)

\* mutant of Remove: the matched peak is never taken out of the list
RemoveNothing(s, x) == s

\* mutant of Remove: the head of the list is dropped, whatever x is
RemoveHead(s, x) == Tail(s)

\* list.remove(x): drops the first element equal to x
RECURSIVE Remove(_, _)
Remove(s, x) ==
    IF s = <<>> THEN <<>>
    ELSE IF Head(s) = x THEN Tail(s)
    ELSE <<Head(s)>> \o Remove(Tail(s), x)

\* the tuple appended to paired_peaks
PairTuple(p1, p2) ==
    <<<<p1, freqs1[p1], psd1[p1]>>, <<p2, freqs2[p2], psd2[p2]>>>>

NoScan == [min_distance |-> 0, pair |-> None]

InitPairPeaks ==
    /\ pc = "pair_start"
    /\ max_freq \in MaxFreqs
    /\ peaks1 \in PeakArrays
    /\ peaks2 \in PeakArrays
    /\ psd1 \in Spectra
    /\ psd2 \in Spectra
    /\ threshold = None
    /\ last_scan = NoScan
    /\ paired_peaks = <<>>
    /\ unpaired_peaks1 = <<>>
    /\ unpaired_peaks2 = <<>>
    /\ similarity_factor = None
    /\ mhi = None
    /\ label = None
    /\ NoComputation
    /\ NoService

\* lines 163-181: the dynamic threshold and the initial unmatched lists
PairPeaksBegin ==
    /\ pc = "pair_start"
    /\ pc' = "pair_loop"
    /\ threshold' = PairThreshold(PairwiseDistances(peaks1, freqs1, peaks2, freqs2))
    /\ paired_peaks' = <<>>
    /\ unpaired_peaks1' = peaks1
    /\ unpaired_peaks2' = peaks2
    /\ UNCHANGED <<signal_vars, last_scan, mhi_vars, compute_vars>>
    /\ UNCHANGED <<compat_vars, creator_vars, concurrent_vars>>

\* lines 183-200: one iteration that finds a pair
PairPeaksIterate ==
    /\ pc = "pair_loop"
    /\ unpaired_peaks1 # <<>>
    /\ unpaired_peaks2 # <<>>
    /\ LET s == Scan(unpaired_peaks1, unpaired_peaks2, freqs1, freqs2, threshold)
       IN  /\ s.pair # None
           /\ paired_peaks' = Append(paired_peaks, PairTuple(s.pair[1], s.pair[2]))
           /\ last_scan' = s
           /\ unpaired_peaks1' = Remove(unpaired_peaks1, s.pair[1])
           /\ unpaired_peaks2' = Remove(unpaired_peaks2, s.pair[2])
    /\ UNCHANGED <<pc, signal_vars, threshold, mhi_vars, compute_vars>>
    /\ UNCHANGED <<compat_vars, creator_vars, concurrent_vars>>

\* lines 183-195: one iteration that finds no pair and breaks
PairPeaksBreak ==
    /\ pc = "pair_loop"
    /\ unpaired_peaks1 # <<>>
    /\ unpaired_peaks2 # <<>>
    /\ pc' = "pair_done"
    /\ LET s == Scan(unpaired_peaks1, unpaired_peaks2, freqs1, freqs2, threshold)
       IN  /\ s.pair = None
           /\ last_scan' = s
    /\ UNCHANGED <<signal_vars, threshold, paired_peaks, unpaired_peaks1,
                   unpaired_peaks2, mhi_vars, compute_vars>>
    /\ UNCHANGED <<compat_vars, creator_vars, concurrent_vars>>

\* line 183: the while condition fails; lines 202-204: the result is returned
PairPeaksExhausted ==
    /\ pc = "pair_loop"
    /\ (unpaired_peaks1 = <<>> \/ unpaired_peaks2 = <<>>)
    /\ pc' = "pair_done"
    /\ UNCHANGED <<signal_vars, pairing_vars, mhi_vars, compute_vars>>
    /\ UNCHANGED <<compat_vars, creator_vars, concurrent_vars>>

NextPairPeaks ==
    \/ PairPeaksBegin
    \/ PairPeaksIterate
    \/ PairPeaksBreak
    \/ PairPeaksExhausted

SpecPairPeaks == InitPairPeaks /\ [][NextPairPeaks]_vars

\* lines 202-204: what _pair_peaks returns
PeakPairingResult ==
    [type            |-> "PeakPairingResult",
     paired_peaks    |-> paired_peaks,
     unpaired_peaks1 |-> unpaired_peaks1,
     unpaired_peaks2 |-> unpaired_peaks2]

\* _pair_peaks returns and is called once more, with the same peaks on a
\* frequency axis stretched by k: every distance is k times what it was
PairPeaksRescaled ==
    /\ pc = "pair_done"
    /\ result = Nothing
    /\ result' = PeakPairingResult
    /\ \E k \in 1 .. MaxScale : max_freq' = k * max_freq
    /\ pc' = "pair_start"
    /\ threshold' = None
    /\ last_scan' = NoScan
    /\ paired_peaks' = <<>>
    /\ unpaired_peaks1' = <<>>
    /\ unpaired_peaks2' = <<>>
    /\ UNCHANGED <<peaks1, peaks2, psd1, psd2, mhi_vars, tool, measurements,
                   kinematics, datas, backend, selection, calls, titles, error>>
    /\ UNCHANGED <<compat_vars, creator_vars, concurrent_vars>>

NextPairPeaksRescaled == NextPairPeaks \/ PairPeaksRescaled

SpecPairPeaksRescaled == InitPairPeaks /\ [][NextPairPeaksRescaled]_vars

\* the while loop of lines 183-200, one iteration or its exit
PairPeaksLoop == PairPeaksIterate \/ PairPeaksBreak \/ PairPeaksExhausted

\* the interpreter keeps executing the loop: it never stops inside it
SpecPairPeaksFair == SpecPairPeaks /\ WF_<<pc, paired_peaks>>(PairPeaksLoop)

(* ----------------------------- _compute_mhi ---------------------------- *)
\* DC_MAX_PEAKS: maximum ideal number of peaks
DC_MAX_PEAKS == 2

\* DC_MAX_UNPAIRED_PEAKS_ALLOWED: no unpaired peaks are tolerated
DC_MAX_UNPAIRED_PEAKS_ALLOWED == 0

RECURSIVE Factorial(_)
Factorial(n) == IF n <= 1 THEN 1 ELSE n * Factorial(n - 1)

\* the MHI is held in units of 1 / MhiUnit: a multiple of every possible
\* number of paired peaks and of every possible highest PSD value
MhiUnit == Factorial(MaxPeaks) * Factorial(MaxPsd)

\* the correlations pearsonr returns, in percent
CorrelationPercents == {-50, 0, 50, 100}

\* mutant of SimilarityFactor: the percentage is not clipped
SimilarityUnclipped(correlation_percent) == correlation_percent

\* lines 100-101: similarity_factor = np.clip(correlation * 100, 0, 100)
SimilarityFactor(correlation_percent) == Clip(correlation_percent, 0, 100)

\* mutant of PsdHighestMax: the second signal is left out of the maximum
PsdHighestMaxFirstOnly(p1, p2) == ArrayMax(p1)

\* line 215: max(signal1.psd.max(), signal2.psd.max())
PsdHighestMax(p1, p2) == Max(ArrayMax(p1), ArrayMax(p2))

\* mutant of ScaledByPeakCount: the scaling starts at one paired peak
ScaledFromOnePeak(m, num_paired_peaks) ==
    IF num_paired_peaks >= DC_MAX_PEAKS - 1
    THEN (m * DC_MAX_PEAKS) \div num_paired_peaks
    ELSE m

\* lines 221-222: mhi *= DC_MAX_PEAKS / num_paired_peaks
ScaledByPeakCount(m, num_paired_peaks) ==
    IF num_paired_peaks >= DC_MAX_PEAKS
    THEN (m * DC_MAX_PEAKS) \div num_paired_peaks
    ELSE m

\* line 228, summed over the unpaired peaks of one signal
RECURSIVE PenaltyOf(_, _, _)
PenaltyOf(unpaired, psd, psd_highest_max) ==
    IF unpaired = <<>> THEN 0
    ELSE (psd[Head(unpaired)] * 30 * MhiUnit) \div psd_highest_max
         + PenaltyOf(Tail(unpaired), psd, psd_highest_max)

\* lines 225-228: the penalty of the combined unpaired peaks
UnpairedPeakPenalty(u1, p1, u2, p2) ==
    IF Len(u1) + Len(u2) > DC_MAX_UNPAIRED_PEAKS_ALLOWED
    THEN PenaltyOf(u1, p1, PsdHighestMax(p1, p2)) + PenaltyOf(u2, p2, PsdHighestMax(p1, p2))
    ELSE 0

\* mutant of MhiClip: only the upper bound is enforced
MhiClipUpperOnly(m) == Min(m, 100 * MhiUnit)

\* line 232: np.clip(mhi, 0, 100)
MhiClip(m) == Clip(m, 0, 100 * MhiUnit)

\* the (lower, upper, message) ranges of _mhi_lut, in the order of the list
ranges ==
    << <<70, 100, "Excellent mechanical health">>,
       <<55, 70, "Good mechanical health">>,
       <<45, 55, "Acceptable mechanical health">>,
       <<30, 45, "Potential signs of a mechanical issue">>,
       <<15, 30, "Likely a mechanical issue">>,
       <<0, 15, "Mechanical issue detected">> >>

\* next(generator, default) over the ranges from position k on
RECURSIVE FirstRangeFrom(_, _)
FirstRangeFrom(k, m) ==
    IF k > Len(ranges) THEN "Unknown mechanical health"
    ELSE IF ranges[k][1] * MhiUnit < m /\ m <= ranges[k][2] * MhiUnit
         THEN ranges[k][3]
         ELSE FirstRangeFrom(k + 1, m)

\* mutant of mhi_lut: the lower bound of a range is inclusive and the upper
\* bound exclusive
RECURSIVE FirstRangeLowerInclusive(_, _)
FirstRangeLowerInclusive(k, m) ==
    IF k > Len(ranges) THEN "Unknown mechanical health"
    ELSE IF ranges[k][1] * MhiUnit <= m /\ m < ranges[k][2] * MhiUnit
         THEN ranges[k][3]
         ELSE FirstRangeLowerInclusive(k + 1, m)

mhi_lut_lower_inclusive(m) ==
    FirstRangeLowerInclusive(1, Clip(m, 1 * MhiUnit, 100 * MhiUnit))

\* mutant of mhi_lut: the value is not clamped before the lookup
mhi_lut_unclamped(m) == FirstRangeFrom(1, m)

\* _mhi_lut
mhi_lut(m) == FirstRangeFrom(1, Clip(m, 1 * MhiUnit, 100 * MhiUnit))

\* the locals of _compute_mhi up to the value handed to _mhi_lut
compute_mhi(sim, paired, u1, p1, u2, p2) ==
    LET start   == sim * MhiUnit
        scaled  == ScaledByPeakCount(start, Len(paired))
        penalty == UnpairedPeakPenalty(u1, p1, u2, p2)
    IN  [start   |-> start,
         scaled  |-> scaled,
         penalty |-> penalty,
         raw     |-> scaled - penalty,
         value   |-> MhiClip(scaled - penalty)]

\* a sequence without its first n members
Suffix(s, n) == SubSeq(s, n + 1, Len(s))

\* the signals _compute_mhi is called with: any two spectra, any two peak
\* arrays, and any number of their peaks paired
InitComputeMhi ==
    /\ pc = "mhi_start"
    /\ max_freq = CHOOSE f \in MaxFreqs : \A g \in MaxFreqs : f <= g
    /\ peaks1 \in PeakArrays
    /\ peaks2 \in PeakArrays
    /\ psd1 \in Spectra
    /\ psd2 \in Spectra
    /\ threshold = None
    /\ last_scan = NoScan
    /\ \E n \in 0 .. Min(Len(peaks1), Len(peaks2)) :
          /\ paired_peaks = [k \in 1 .. n |-> PairTuple(peaks1[k], peaks2[k])]
          /\ unpaired_peaks1 = Suffix(peaks1, n)
          /\ unpaired_peaks2 = Suffix(peaks2, n)
    /\ similarity_factor \in {SimilarityFactor(c) : c \in CorrelationPercents}
    /\ mhi = None
    /\ label = None
    /\ NoComputation
    /\ NoService

\* lines 206-234: _compute_mhi, with the label of the value
ComputeMhi ==
    /\ pc = "mhi_start"
    /\ mhi' = compute_mhi(similarity_factor, paired_peaks,
                          unpaired_peaks1, psd1, unpaired_peaks2, psd2)
    /\ label' = mhi_lut(mhi'.value)
    /\ pc' = "mhi_done"
    /\ UNCHANGED <<signal_vars, pairing_vars, similarity_factor, compute_vars>>
    /\ UNCHANGED <<compat_vars, creator_vars, concurrent_vars>>

NextComputeMhi == ComputeMhi

SpecComputeMhi == InitComputeMhi /\ [][NextComputeMhi]_vars

(* ------------------------------- _mhi_lut ------------------------------ *)
\* the values _mhi_lut is applied to: every multiple of 1 / MhiUnit from
\* -1 to 101
LutInputs == (0 - MhiUnit) .. (101 * MhiUnit)

InitMhiLut ==
    /\ pc = "lut_start"
    /\ mhi \in {[value |-> v] : v \in LutInputs}
    /\ label = None
    /\ similarity_factor = None
    /\ max_freq = None
    /\ peaks1 = None
    /\ peaks2 = None
    /\ psd1 = None
    /\ psd2 = None
    /\ threshold = None
    /\ last_scan = NoScan
    /\ paired_peaks = <<>>
    /\ unpaired_peaks1 = <<>>
    /\ unpaired_peaks2 = <<>>
    /\ NoComputation
    /\ NoService

\* lines 236-250: _mhi_lut
MhiLut ==
    /\ pc = "lut_start"
    /\ label' = mhi_lut(mhi.value)
    /\ pc' = "lut_done"
    /\ UNCHANGED <<signal_vars, pairing_vars, similarity_factor, mhi, compute_vars>>
    /\ UNCHANGED <<compat_vars, creator_vars, concurrent_vars>>

NextMhiLut == MhiLut

SpecMhiLut == InitMhiLut /\ [][NextMhiLut]_vars

(* ------------------------ BeltsComputation.compute --------------------- *)
\* m['samples'] is None, written as the capture number no capture has
NoSamples == 0

\* the measurement lists: the i-th measurement is named i, and its samples
\* are None or the sample array of capture i (written i)
MeasurementLists ==
    UNION {{[i \in 1 .. n |-> [name |-> i,
                               samples |-> IF i \in S THEN i ELSE NoSamples]] :
               S \in SUBSET (1 .. n)} : n \in 0 .. MaxMeasurements}

\* [np.array(m['samples']) for m in measurements if m['samples'] is not None]
RECURSIVE ValidSamples(_)
ValidSamples(ms) ==
    IF ms = <<>> THEN <<>>
    ELSE IF Head(ms).samples # NoSamples
         THEN <<Head(ms).samples>> \o ValidSamples(Tail(ms))
         ELSE ValidSamples(Tail(ms))

\* [meas.get("name", "unknown") for meas in self.measurements]
MeasurementNames(ms) == [i \in 1 .. Len(ms) |-> ms[i].name]

\* mutant of BeltsCardinalityOk: more than 2 measurements are let through
BeltsCardinalityAtLeast(ms) == Len(ms) >= 2

\* line 55: len(self.measurements) != 2 raises
BeltsCardinalityOk(ms) == Len(ms) = 2

\* lines 56-59: the ValueError and what its message names
BeltsCardinalityError(ms) ==
    [type     |-> "ValueError",
     message  |-> "This tool needs 2 measurements to work with (one for each belt)!",
     required |-> 2,
     count    |-> Len(ms),
     names    |-> MeasurementNames(ms)]

\* datas[i] with i beyond the end of the list
IndexError == [type |-> "IndexError", message |-> "list index out of range"]

\* line 98: the kinematics with two symmetric belts
SymmetricKinematics == {"limited_corexy", "corexy", "limited_corexz", "corexz"}

\* the kinematics the computation is constructed with
KinematicsValues == {"corexy", "cartesian"}

\* mutant of ReturnedMhi: the clipped number is returned instead of its label
ReturnedMhiNumber(m, text) == [type |-> "float", value |-> m.value]

\* line 234: _compute_mhi returns the text of _mhi_lut, a str
ReturnedMhi(m, text) == [type |-> "str", value |-> text]

\* mhi = None when the belts are not symmetric
NoMhi == [type |-> "NoneType", value |-> None]

InitBelts ==
    /\ pc = "belts_start"
    /\ tool = "belts"
    /\ measurements \in MeasurementLists
    /\ kinematics \in KinematicsValues
    /\ max_freq \in MaxFreqs
    /\ datas = <<>>
    /\ peaks1 = None
    /\ peaks2 = None
    /\ psd1 = None
    /\ psd2 = None
    /\ threshold = None
    /\ last_scan = NoScan
    /\ paired_peaks = <<>>
    /\ unpaired_peaks1 = <<>>
    /\ unpaired_peaks2 = <<>>
    /\ similarity_factor = None
    /\ mhi = None
    /\ label = None
    /\ backend = None
    /\ selection = None
    /\ calls = <<>>
    /\ titles = Nothing
    /\ result = Nothing
    /\ error = Nothing
    /\ NoService

\* lines 55-59: the wrong number of measurements
BeltsComputeReject ==
    /\ pc = "belts_start"
    /\ tool = "belts"
    /\ ~BeltsCardinalityOk(measurements)
    /\ error' = BeltsCardinalityError(measurements)
    /\ pc' = "failed"
    /\ UNCHANGED <<signal_vars, pairing_vars, mhi_vars, tool, measurements, kinematics,
                   datas, backend, selection, calls, titles, result>>
    /\ UNCHANGED <<compat_vars, creator_vars, concurrent_vars>>

\* lines 61-73: datas[0] or datas[1] does not exist
BeltsComputeCrash ==
    /\ pc = "belts_start"
    /\ tool = "belts"
    /\ BeltsCardinalityOk(measurements)
    /\ datas' = ValidSamples(measurements)
    /\ Len(datas') < 2
    /\ error' = IndexError
    /\ pc' = "failed"
    /\ UNCHANGED <<signal_vars, pairing_vars, mhi_vars, tool, measurements, kinematics,
                   backend, selection, calls, titles, result>>
    /\ UNCHANGED <<compat_vars, creator_vars, concurrent_vars>>

\* lines 61-73: the two signals, with the spectrum and the peaks that
\* process_accelerometer_data and detect_peaks give for datas[0] and datas[1]
BeltsSignalData ==
    /\ pc = "belts_start"
    /\ tool = "belts"
    /\ BeltsCardinalityOk(measurements)
    /\ datas' = ValidSamples(measurements)
    /\ Len(datas') >= 2
    /\ psd1' \in Spectra
    /\ psd2' \in Spectra
    /\ peaks1' \in PeakArrays
    /\ peaks2' \in PeakArrays
    /\ pc' = "pair_start"
    /\ UNCHANGED <<max_freq, pairing_vars, mhi_vars, tool, measurements, kinematics,
                   backend, selection, calls, titles, result, error>>
    /\ UNCHANGED <<compat_vars, creator_vars, concurrent_vars>>

\* the BeltsResult of lines 117-130
BeltsResult(sim, mhi_text) ==
    [type              |-> "BeltsResult",
     measurements      |-> measurements,
     signal1_belt      |-> measurements[1].name,
     signal2_belt      |-> measurements[2].name,
     signal1_samples   |-> datas[1],
     signal2_samples   |-> datas[2],
     kinematics        |-> kinematics,
     similarity_factor |-> sim,
     mhi               |-> mhi_text]

\* lines 95-130 for a kinematics with symmetric belts
BeltsFinishSymmetric ==
    /\ pc = "pair_done"
    /\ tool = "belts"
    /\ kinematics \in SymmetricKinematics
    /\ \E correlation \in CorrelationPercents :
          similarity_factor' = SimilarityFactor(correlation)
    /\ mhi' = compute_mhi(similarity_factor', paired_peaks,
                          unpaired_peaks1, psd1, unpaired_peaks2, psd2)
    /\ label' = mhi_lut(mhi'.value)
    /\ result' = BeltsResult(similarity_factor', ReturnedMhi(mhi', label'))
    /\ pc' = "returned"
    /\ UNCHANGED <<signal_vars, pairing_vars, tool, measurements, kinematics, datas,
                   backend, selection, calls, titles, error>>
    /\ UNCHANGED <<compat_vars, creator_vars, concurrent_vars>>

\* lines 95-130 for any other kinematics
BeltsFinishOther ==
    /\ pc = "pair_done"
    /\ tool = "belts"
    /\ kinematics \notin SymmetricKinematics
    /\ result' = BeltsResult(None, NoMhi)
    /\ pc' = "returned"
    /\ UNCHANGED <<signal_vars, pairing_vars, mhi_vars, tool, measurements, kinematics,
                   datas, backend, selection, calls, titles, error>>
    /\ UNCHANGED <<compat_vars, creator_vars, concurrent_vars>>

NextBelts ==
    \/ BeltsComputeReject
    \/ BeltsComputeCrash
    \/ BeltsSignalData
    \/ PairPeaksBegin
    \/ PairPeaksIterate
    \/ PairPeaksBreak
    \/ PairPeaksExhausted
    \/ BeltsFinishSymmetric
    \/ BeltsFinishOther

SpecBelts == InitBelts /\ [][NextBelts]_vars

(* --------------------------- ShaperComputation ------------------------- *)
\* number of shapers find_best_shaper answers with
NumShapers == 2

\* largest max_accel of a shaper
MaxAccel == 2

\* MAX_VIBRATIONS = 5.0, in percent
MAX_VIBRATIONS == 5

\* MIN_SMOOTHING = 0.001, in thousandths
MIN_SMOOTHING == 1

\* self.max_smoothing, in thousandths
MaxSmoothing == 100

\* the names of the shapers of Klipper
ShaperNames == <<"zv", "mzv", "ei", "2hump_ei", "3hump_ei">>

\* str.upper() on the names of the shapers
Upper(name) ==
    CASE name = "zv" -> "ZV"
      [] name = "mzv" -> "MZV"
      [] name = "ei" -> "EI"
      [] name = "2hump_ei" -> "2HUMP_EI"
      [] name = "3hump_ei" -> "3HUMP_EI"

\* the remaining vibrations of a shaper, in thousandths: below and at 5%
Vibrations == {30, 50}

\* the lists of shapers a first pass answers with
ShaperLists ==
    {[i \in 1 .. NumShapers |->
         [name |-> ShaperNames[i], freq |-> 10 * i, vibrs |-> v[i],
          smoothing |-> 10 * i, max_accel |-> a[i]]] :
       v \in [1 .. NumShapers -> Vibrations], a \in [1 .. NumShapers -> 0 .. MaxAccel]}

\* the shaper_calibrate module: whether it is the older one that takes
\* (calib_data, max_smoothing, logger) only, its shapers, the one it holds
\* best, and what a smoothing of MIN_SMOOTHING adds to every max_accel
Backends ==
    {[legacy |-> l, shapers |-> s, best |-> b, best_min |-> m, boost |-> d] :
       l \in BOOLEAN, s \in ShaperLists, b \in 1 .. NumShapers,
       m \in 1 .. NumShapers, d \in {0, 1}}

\* what the backend finds with the smoothing limited to MIN_SMOOTHING
ShapersAtMinSmoothing(b) ==
    [i \in 1 .. Len(b.shapers) |->
        [b.shapers[i] EXCEPT !.max_accel = @ + b.boost, !.smoothing = MIN_SMOOTHING]]

\* shaper_calibrate.find_best_shaper, called with keywords or the older way
find_best_shaper(b, keywords, max_smoothing) ==
    IF b.legacy /\ keywords
    THEN [raised |-> "TypeError", best |-> None, shapers |-> <<>>]
    ELSE [raised |-> None,
          best |-> IF max_smoothing = MIN_SMOOTHING
                   THEN b.shapers[b.best_min].name
                   ELSE b.shapers[b.best].name,
          shapers |-> IF max_smoothing = MIN_SMOOTHING
                      THEN ShapersAtMinSmoothing(b)
                      ELSE b.shapers]

\* the record of one call in calls
Call(keywords, max_smoothing, answer) ==
    [keywords |-> keywords, max_smoothing |-> max_smoothing, raised |-> answer.raised,
     best |-> answer.best]

\* mutant of SecondPassKeywords: the second pass always passes the damping ratio
SecondPassAlwaysKeywords(compat) == TRUE

\* lines 233-247: the form of the call of the second pass
SecondPassKeywords(compat) == ~compat

\* mutant of CompatFlag: the fallback leaves compat False
CompatFlagUnset(fallback) == FALSE

\* lines 201 and 228: compat = False, and True in the except branch
CompatFlag(fallback) == fallback

\* _calibrate_shaper
CalibrateShaper(b) ==
    LET first    == find_best_shaper(b, TRUE, MaxSmoothing)
        fallback == first.raised = "TypeError"
        older    == find_best_shaper(b, FALSE, MaxSmoothing)
        used     == IF fallback THEN older ELSE first
        compat   == CompatFlag(fallback)
        second   == find_best_shaper(b, SecondPassKeywords(compat), MIN_SMOOTHING)
    IN  [k_shaper_choice |-> used.best,
         k_shapers       |-> used.shapers,
         k_shapers_max   |-> second.shapers,
         compat          |-> compat,
         calls           |-> <<Call(TRUE, MaxSmoothing, first)>>
                             \o (IF fallback THEN <<Call(FALSE, MaxSmoothing, older)>>
                                 ELSE <<>>)
                             \o <<Call(SecondPassKeywords(compat), MIN_SMOOTHING, second)>>]

\* mutant of PerformanceCandidate: the vibrations are not looked at
PerformanceCandidateAnyVibrations(shaper, perf_shaper_accel) ==
    perf_shaper_accel < shaper.max_accel

\* line 120: perf_shaper_accel < shaper.max_accel and
\* shaper.vibrs * 100 < MAX_VIBRATIONS
PerformanceCandidate(shaper, perf_shaper_accel) ==
    /\ perf_shaper_accel < shaper.max_accel
    /\ shaper.vibrs * 100 < MAX_VIBRATIONS * 1000

\* lines 97-100: the locals before the loop
NoSelection ==
    [perf_shaper_choice     |-> None,
     perf_shaper_freq       |-> None,
     perf_shaper_accel      |-> 0,
     klipper_shaper_freq    |-> None,
     klipper_shaper_accel   |-> None,
     max_smoothing_computed |-> 0,
     shapers                |-> <<>>]

\* lines 102-109: one row of the table of shapers
ShaperInfo(shaper) ==
    [type       |-> Upper(shaper.name),
     frequency  |-> shaper.freq,
     vibrations |-> shaper.vibrs,
     smoothing  |-> shaper.smoothing,
     max_accel  |-> shaper.max_accel]

\* lines 101-123: the loop over k_shapers, from its k-th shaper on
RECURSIVE SelectFrom(_, _, _, _)
SelectFrom(k, k_shapers, k_shaper_choice, sel) ==
    IF k > Len(k_shapers) THEN sel
    ELSE LET shaper == k_shapers[k]
             s1 == [sel EXCEPT !.shapers = Append(@, ShaperInfo(shaper)),
                               !.max_smoothing_computed = Max(@, shaper.smoothing)]
             s2 == IF shaper.name = k_shaper_choice
                   THEN [s1 EXCEPT !.klipper_shaper_freq = shaper.freq,
                                   !.klipper_shaper_accel = shaper.max_accel]
                   ELSE s1
             s3 == IF PerformanceCandidate(shaper, s2.perf_shaper_accel)
                   THEN [s2 EXCEPT !.perf_shaper_choice = shaper.name,
                                   !.perf_shaper_accel = shaper.max_accel,
                                   !.perf_shaper_freq = shaper.freq]
                   ELSE s2
         IN  SelectFrom(k + 1, k_shapers, k_shaper_choice, s3)

\* mutant of RecommendTwo: the two names are not compared
RecommendTwoSameName(sel, k_shaper_choice) ==
    /\ sel.perf_shaper_choice # None
    /\ sel.perf_shaper_accel >= sel.klipper_shaper_accel

\* lines 134-138: the condition of the two recommendations
RecommendTwo(sel, k_shaper_choice) ==
    /\ sel.perf_shaper_choice # None
    /\ sel.perf_shaper_choice # k_shaper_choice
    /\ sel.perf_shaper_accel >= sel.klipper_shaper_accel

\* one recommendation string: its wording, the shaper and the frequency
Recommendation(text, name, freq) == [text |-> text, shaper |-> Upper(name), freq |-> freq]

\* lines 133-152: the recommendations and shaper_choices
Recommend(sel, k_shaper_choice) ==
    IF RecommendTwo(sel, k_shaper_choice)
    THEN [recommendations |->
              <<Recommendation("    -> For performance: ", sel.perf_shaper_choice,
                               sel.perf_shaper_freq),
                Recommendation("    -> For low vibrations: ", k_shaper_choice,
                               sel.klipper_shaper_freq)>>,
          shaper_choices |-> <<Upper(k_shaper_choice), Upper(sel.perf_shaper_choice)>>]
    ELSE [recommendations |->
              <<Recommendation("    -> Best shaper: ", k_shaper_choice,
                               sel.klipper_shaper_freq)>>,
          shaper_choices |-> <<Upper(k_shaper_choice)>>]

\* the ValueError of an empty list of measurements
NoValidDataError ==
    [type |-> "ValueError", message |-> "No valid data found in the provided measurements!"]

\* lines 165-187: the ShaperResult
ShaperResult(c, sel, r) ==
    [type                   |-> "ShaperResult",
     measurements           |-> measurements,
     samples                |-> datas'[1],
     shapers                |-> c.k_shapers,
     shaper_table_data      |-> [shapers |-> sel.shapers,
                                 recommendations |-> r.recommendations],
     shaper_choices         |-> r.shaper_choices,
     max_smoothing          |-> MaxSmoothing,
     compat                 |-> c.compat,
     max_smoothing_computed |-> sel.max_smoothing_computed]

\* the StaticFrequencyResult
StaticFrequencyResult ==
    [type         |-> "StaticFrequencyResult",
     measurements |-> measurements,
     samples      |-> datas'[1]]

\* _add_titles: the lines that depend on the name of the measurement, which
\* either has the form <prefix>_<axis>_<date>_<time> or makes the try block fail
AddTitles(data, parsed) ==
    IF parsed
    THEN [type        |-> "titles",
          title_line2 |-> data.measurements[1].name,
          title_line3 |-> IF data.compat
                          THEN "| Older Klipper version detected, damping ratio"
                          ELSE "| Square corner velocity: ",
          title_line4 |-> IF data.compat
                          THEN "| and SCV are not used for filter recommendations!"
                          ELSE "| Allowed smoothing: "]
    ELSE [type        |-> "titles",
          title_line2 |-> data.measurements[1].name,
          title_line3 |-> "",
          title_line4 |-> ""]

\* a ShaperComputation or a StaticFrequencyComputation ready to compute
InitShaper ==
    /\ pc = "compute_start"
    /\ tool \in {"shaper", "static"}
    /\ measurements \in MeasurementLists
    /\ backend \in IF tool = "shaper" THEN Backends ELSE {None}
    /\ kinematics = None
    /\ max_freq = None
    /\ datas = <<>>
    /\ peaks1 = None
    /\ peaks2 = None
    /\ psd1 = None
    /\ psd2 = None
    /\ threshold = None
    /\ last_scan = NoScan
    /\ paired_peaks = <<>>
    /\ unpaired_peaks1 = <<>>
    /\ unpaired_peaks2 = <<>>
    /\ similarity_factor = None
    /\ mhi = None
    /\ label = None
    /\ selection = None
    /\ calls = <<>>
    /\ titles = Nothing
    /\ result = Nothing
    /\ error = Nothing
    /\ NoService

\* lines 49-50: no measurement at all
ShaperComputeEmpty ==
    /\ pc = "compute_start"
    /\ tool = "shaper"
    /\ Len(measurements) = 0
    /\ error' = NoValidDataError
    /\ pc' = "failed"
    /\ UNCHANGED <<signal_vars, pairing_vars, mhi_vars, tool, measurements, kinematics,
                   datas, backend, selection, calls, titles, result>>
    /\ UNCHANGED <<compat_vars, creator_vars, concurrent_vars>>

\* lines 54-65: datas[0] does not exist
ShaperComputeCrash ==
    /\ pc = "compute_start"
    /\ tool = "shaper"
    /\ Len(measurements) # 0
    /\ datas' = ValidSamples(measurements)
    /\ datas' = <<>>
    /\ error' = IndexError
    /\ pc' = "failed"
    /\ UNCHANGED <<signal_vars, pairing_vars, mhi_vars, tool, measurements, kinematics,
                   backend, selection, calls, titles, result>>
    /\ UNCHANGED <<compat_vars, creator_vars, concurrent_vars>>

\* lines 54-187: the calibration of datas[0] and the recommendations
ShaperComputeReturn ==
    /\ pc = "compute_start"
    /\ tool = "shaper"
    /\ Len(measurements) # 0
    /\ datas' = ValidSamples(measurements)
    /\ datas' # <<>>
    /\ LET c == CalibrateShaper(backend)
       IN  /\ calls' = c.calls
           /\ selection' = SelectFrom(1, c.k_shapers, c.k_shaper_choice, NoSelection)
           /\ result' = ShaperResult(c, selection', Recommend(selection', c.k_shaper_choice))
    /\ pc' = "returned"
    /\ UNCHANGED <<signal_vars, pairing_vars, mhi_vars, tool, measurements, kinematics,
                   backend, titles, error>>
    /\ UNCHANGED <<compat_vars, creator_vars, concurrent_vars>>

\* ShaperPlotter._add_titles on the data of the result
ShaperAddTitles ==
    /\ pc = "returned"
    /\ tool = "shaper"
    /\ \E parsed \in BOOLEAN : titles' = AddTitles(result, parsed)
    /\ pc' = "plotted"
    /\ UNCHANGED <<signal_vars, pairing_vars, mhi_vars, tool, measurements, kinematics,
                   datas, backend, selection, calls, result, error>>
    /\ UNCHANGED <<compat_vars, creator_vars, concurrent_vars>>

\* static_frequency_computation.py lines 41-42
StaticComputeEmpty ==
    /\ pc = "compute_start"
    /\ tool = "static"
    /\ Len(measurements) = 0
    /\ error' = NoValidDataError
    /\ pc' = "failed"
    /\ UNCHANGED <<signal_vars, pairing_vars, mhi_vars, tool, measurements, kinematics,
                   datas, backend, selection, calls, titles, result>>
    /\ UNCHANGED <<compat_vars, creator_vars, concurrent_vars>>

\* static_frequency_computation.py lines 48-51: datas[0] does not exist
StaticComputeCrash ==
    /\ pc = "compute_start"
    /\ tool = "static"
    /\ Len(measurements) # 0
    /\ datas' = ValidSamples(measurements)
    /\ datas' = <<>>
    /\ error' = IndexError
    /\ pc' = "failed"
    /\ UNCHANGED <<signal_vars, pairing_vars, mhi_vars, tool, measurements, kinematics,
                   backend, selection, calls, titles, result>>
    /\ UNCHANGED <<compat_vars, creator_vars, concurrent_vars>>

\* static_frequency_computation.py lines 48-75
StaticComputeReturn ==
    /\ pc = "compute_start"
    /\ tool = "static"
    /\ Len(measurements) # 0
    /\ datas' = ValidSamples(measurements)
    /\ datas' # <<>>
    /\ result' = StaticFrequencyResult
    /\ pc' = "returned"
    /\ UNCHANGED <<signal_vars, pairing_vars, mhi_vars, tool, measurements, kinematics,
                   backend, selection, calls, titles, error>>
    /\ UNCHANGED <<compat_vars, creator_vars, concurrent_vars>>

NextShaper ==
    \/ ShaperComputeEmpty
    \/ ShaperComputeCrash
    \/ ShaperComputeReturn
    \/ ShaperAddTitles
    \/ StaticComputeEmpty
    \/ StaticComputeCrash
    \/ StaticComputeReturn

SpecShaper == InitShaper /\ [][NextShaper]_vars

\* any of the three computations
InitCompute == InitBelts \/ InitShaper

NextCompute == NextBelts \/ NextShaper

SpecCompute == InitCompute /\ [][NextCompute]_vars

(* ----------------------- properties of _pair_peaks --------------------- *)
InPairing == pc \in {"pair_loop", "pair_done"}

\* number of positions of the sequence s that hold x
Count(s, x) == Cardinality({i \in 1 .. Len(s) : s[i] = x})

\* the frequency distance of the k-th pair of paired_peaks
PairDistance(k) == Abs(paired_peaks[k][1][2] - paired_peaks[k][2][2])

\* C1: throughout the pairing and in its result, the paired peaks and the
\* unpaired peaks of a signal add up to the number of peaks of that signal.
C1_PairingCompleteness ==
    InPairing =>
        /\ Len(paired_peaks) + Len(unpaired_peaks1) = Len(peaks1)
        /\ Len(paired_peaks) + Len(unpaired_peaks2) = Len(peaks2)

C1_Witness ==
    /\ pc = "pair_done"
    /\ Len(paired_peaks) >= 1
    /\ Len(unpaired_peaks1) >= 1
    /\ Len(unpaired_peaks2) >= 1

\* C2: every bin is, as often as it is a peak of signal 1, either the first
\* member of a pair or in unpaired_peaks1 (so a peak exactly once and any
\* other bin never), and likewise for signal 2 and the second members.
C2_EveryPeakExactlyOnce ==
    InPairing =>
        \A b \in Bins :
            /\ Cardinality({k \in 1 .. Len(paired_peaks) : paired_peaks[k][1][1] = b})
                 + Count(unpaired_peaks1, b) = Count(peaks1, b)
            /\ Cardinality({k \in 1 .. Len(paired_peaks) : paired_peaks[k][2][1] = b})
                 + Count(unpaired_peaks2, b) = Count(peaks2, b)
            /\ Count(peaks1, b) <= 1
            /\ Count(peaks2, b) <= 1

C2_Witness ==
    /\ pc = "pair_done"
    /\ Len(paired_peaks) >= 2
    /\ Len(unpaired_peaks1) >= 1
    /\ paired_peaks[1][1][1] > paired_peaks[2][1][1]

\* C3: every pair of paired_peaks has a frequency distance strictly smaller
\* than the threshold of the call.
C3_PairsBelowThreshold ==
    InPairing => \A k \in 1 .. Len(paired_peaks) : PairDistance(k) < threshold

\* C4: an iteration that appends a pair appends a combination of minimum
\* distance among all combinations of the peaks unmatched before it, and
\* the first such combination in scan order (set 1 outer, set 2 inner).
C4_ClosestPairFirstInScanOrder ==
    [][(pc = "pair_loop" /\ Len(paired_peaks') = Len(paired_peaks) + 1) =>
         LET sel == paired_peaks'[Len(paired_peaks')]
             d   == Abs(sel[1][2] - sel[2][2])
         IN  \E i \in 1 .. Len(unpaired_peaks1), j \in 1 .. Len(unpaired_peaks2) :
                /\ unpaired_peaks1[i] = sel[1][1]
                /\ unpaired_peaks2[j] = sel[2][1]
                /\ \A m \in 1 .. Len(unpaired_peaks1), n \in 1 .. Len(unpaired_peaks2) :
                      LET e == Abs(freqs1[unpaired_peaks1[m]] - freqs2[unpaired_peaks2[n]])
                      IN  /\ d <= e
                          /\ (d = e) => (i < m \/ (i = m /\ j <= n))
      ]_vars

\* a pair was selected while a later combination of the peaks left over was
\* exactly as close
C4_Witness ==
    /\ pc = "pair_loop"
    /\ Len(paired_peaks) >= 1
    /\ \E m \in 1 .. Len(unpaired_peaks1), n \in 1 .. Len(unpaired_peaks2) :
          /\ Abs(freqs1[unpaired_peaks1[m]] - freqs2[unpaired_peaks2[n]])
               = PairDistance(Len(paired_peaks))
          /\ unpaired_peaks1[m] > paired_peaks[Len(paired_peaks)][1][1]

\* the multiset D of the pairwise distances, as a function of the positions
DistanceOf(ij) == Abs(freqs1[peaks1[ij[1]]] - freqs2[peaks2[ij[2]]])

DistancePositions == (1 .. Len(peaks1)) \X (1 .. Len(peaks2))

\* the k-th smallest (k from 0) of the pairwise distances
OrderStatistic(k) ==
    CHOOSE v \in {DistanceOf(ij) : ij \in DistancePositions} :
        /\ Cardinality({ij \in DistancePositions : DistanceOf(ij) < v}) <= k
        /\ Cardinality({ij \in DistancePositions : DistanceOf(ij) <= v}) > k

\* four times the q4-th quartile of the pairwise distances (linear interpolation)
Quartile4(q4) ==
    LET n  == Cardinality(DistancePositions)
        lo == (q4 * (n - 1)) \div 4
        r  == (q4 * (n - 1)) % 4
    IN  (4 - r) * OrderStatistic(lo) + r * OrderStatistic(Min(lo + 1, n - 1))

\* C5: the threshold is min(median(D) + 1.5 * (P75(D) - P25(D)), 10 Hz), is
\* 10 Hz when either peak set is empty, and never exceeds 10 Hz.
C5_DynamicThreshold ==
    InPairing =>
        /\ threshold <= 10 * Hz
        /\ (peaks1 = <<>> \/ peaks2 = <<>>) => threshold = 10 * Hz
        /\ (peaks1 # <<>> /\ peaks2 # <<>>) =>
              8 * threshold
                = Min(2 * Quartile4(2) + 3 * (Quartile4(3) - Quartile4(1)), 80 * Hz)

\* the threshold of a call with a positive interquartile range, below the cap
C5_Witness ==
    /\ InPairing
    /\ peaks1 # <<>> /\ peaks2 # <<>>
    /\ Quartile4(3) > Quartile4(1)
    /\ threshold < 10 * Hz
    /\ threshold > (Quartile4(2) \div 4)

(* ---------------------- properties of _compute_mhi --------------------- *)
\* C6: the value _compute_mhi hands to _mhi_lut lies between 0 and 100.
C6_MhiBounded ==
    (pc = "mhi_done") => (0 <= mhi.value /\ mhi.value <= 100 * MhiUnit)

\* the penalty exceeded the scaled similarity and the value was clamped to 0
C6_Witness ==
    /\ pc = "mhi_done"
    /\ mhi.raw < 0
    /\ mhi.value = 0

\* C9: the similarity is multiplied by 2 / paired_count exactly when there
\* are at least 2 paired peaks (factor 1 for 2 pairs, less than 1 for more),
\* is left as it is for 0 or 1 paired peaks, and is never increased.
C9_PeakCountScaling ==
    (pc = "mhi_done") =>
        LET n == Len(paired_peaks)
        IN  /\ mhi.start = similarity_factor * MhiUnit
            /\ (n >= 2) => (mhi.scaled * n = 2 * mhi.start)
            /\ (n < 2) => (mhi.scaled = mhi.start)
            /\ (n = 2) => (mhi.scaled = mhi.start)
            /\ (n > 2 /\ mhi.start > 0) => (mhi.scaled < mhi.start)
            /\ mhi.scaled <= mhi.start

C9_Witness ==
    /\ pc = "mhi_done"
    /\ Len(paired_peaks) > 2
    /\ similarity_factor > 0
    /\ mhi.scaled < mhi.start

\* the sum of the PSD amplitudes at the positions i .. Len(peaks) of peaks
RECURSIVE AmplitudeSum(_, _, _)
AmplitudeSum(peaks, psd, i) ==
    IF i > Len(peaks) THEN 0 ELSE psd[peaks[i]] + AmplitudeSum(peaks, psd, i + 1)

\* the highest PSD amplitude of the two signals
HighestAmplitude ==
    CHOOSE v \in {psd1[b] : b \in Bins} \cup {psd2[b] : b \in Bins} :
        \A b \in Bins : psd1[b] <= v /\ psd2[b] <= v

\* C10: the penalty subtracted is the sum over the unpaired peaks of both
\* signals of (psd of the peak / highest psd of both signals) * 30; every
\* term lies in [0,30]; nothing is subtracted without unpaired peaks; and
\* one more unpaired peak, in either signal, never gives a higher MHI.
C10_UnpairedPeakPenalty ==
    (pc = "mhi_done") =>
        /\ mhi.penalty * HighestAmplitude
             = 30 * MhiUnit * (AmplitudeSum(unpaired_peaks1, psd1, 1)
                               + AmplitudeSum(unpaired_peaks2, psd2, 1))
        /\ mhi.raw = mhi.scaled - mhi.penalty
        /\ \A i \in 1 .. Len(unpaired_peaks1) :
              LET term == UnpairedPeakPenalty(<<unpaired_peaks1[i]>>, psd1, <<>>, psd2)
              IN  0 <= term /\ term <= 30 * MhiUnit
        /\ \A i \in 1 .. Len(unpaired_peaks2) :
              LET term == UnpairedPeakPenalty(<<>>, psd1, <<unpaired_peaks2[i]>>, psd2)
              IN  0 <= term /\ term <= 30 * MhiUnit
        /\ (unpaired_peaks1 = <<>> /\ unpaired_peaks2 = <<>>) =>
              (mhi.penalty = 0 /\ mhi.raw = mhi.scaled)
        /\ \A b \in Bins :
              /\ compute_mhi(similarity_factor, paired_peaks,
                             Append(unpaired_peaks1, b), psd1,
                             unpaired_peaks2, psd2).value <= mhi.value
              /\ compute_mhi(similarity_factor, paired_peaks,
                             unpaired_peaks1, psd1,
                             Append(unpaired_peaks2, b), psd2).value <= mhi.value

\* unpaired peaks in both signals, one of them below the highest amplitude
C10_Witness ==
    /\ pc = "mhi_done"
    /\ unpaired_peaks1 # <<>>
    /\ unpaired_peaks2 # <<>>
    /\ mhi.penalty > 30 * MhiUnit
    /\ mhi.penalty < 60 * MhiUnit
    /\ mhi.value > 0

(* ------------------------ properties of _mhi_lut ----------------------- *)
HealthLabels == {ranges[k][3] : k \in 1 .. Len(ranges)}

\* C7: every value of [0,100] gets one of the six labels, never the
\* fallback, and lies (clamped to [1,100]) in exactly one of the ranges.
C7_LabelCoverage ==
    (pc = "lut_done" /\ 0 <= mhi.value /\ mhi.value <= 100 * MhiUnit) =>
        /\ label \in HealthLabels
        /\ label # "Unknown mechanical health"
        /\ Cardinality(HealthLabels) = 6
        /\ Cardinality({k \in 1 .. Len(ranges) :
                           /\ ranges[k][1] * MhiUnit < Max(mhi.value, MhiUnit)
                           /\ Max(mhi.value, MhiUnit) <= ranges[k][2] * MhiUnit}) = 1

\* the bottom of the interval, which no range holds before the clamp
C7_Witness ==
    /\ pc = "lut_done"
    /\ mhi.value = 0
    /\ label \in HealthLabels

\* C8: the upper bound of a range is inclusive and the lower one exclusive:
\* 70 is Good, 55 Acceptable, 45 Potential signs, 30 Likely, 15 and 0
\* Mechanical issue detected, and every value of (70,100] is Excellent.
C8_LabelBoundaries ==
    (pc = "lut_done") =>
        /\ (mhi.value = 70 * MhiUnit) => (label = "Good mechanical health")
        /\ (mhi.value = 55 * MhiUnit) => (label = "Acceptable mechanical health")
        /\ (mhi.value = 45 * MhiUnit) => (label = "Potential signs of a mechanical issue")
        /\ (mhi.value = 30 * MhiUnit) => (label = "Likely a mechanical issue")
        /\ (mhi.value = 15 * MhiUnit) => (label = "Mechanical issue detected")
        /\ (mhi.value = 0) => (label = "Mechanical issue detected")
        /\ (70 * MhiUnit < mhi.value /\ mhi.value <= 100 * MhiUnit) =>
              (label = "Excellent mechanical health")

C8_Witness ==
    /\ pc = "lut_done"
    /\ mhi.value = 70 * MhiUnit
    /\ label = "Good mechanical health"

(* ------------------- properties of BeltsComputation.compute ------------ *)
\* C11: compute() called with a number of measurements other than 2 fails at
\* once with the cardinality ValueError, whose message names the required
\* count 2, the count supplied and the names of the measurements; no result is
\* produced and neither signals nor pairing are computed.  With exactly 2
\* measurements this error is never raised.
C11_CardinalityError ==
    [][(pc = "belts_start" /\ tool = "belts") =>
          IF Len(measurements) # 2
          THEN /\ pc' = "failed"
               /\ error'.type = "ValueError"
               /\ error'.required = 2
               /\ error'.count = Len(measurements)
               /\ error'.names = [i \in 1 .. Len(measurements) |-> measurements[i].name]
               /\ result' = Nothing
               /\ UNCHANGED <<signal_vars, pairing_vars, mhi_vars, datas>>
          ELSE error'.type # "ValueError"]_vars

C11_Witness ==
    /\ tool = "belts"
    /\ pc = "failed"
    /\ Len(measurements) = 3
    /\ error.type = "ValueError"
    /\ error.count = 3

\* C19 as stated: the BeltsResult of a printer with symmetric belts carries
\* the mechanical health as a number between 0 and 100.
C19_MhiIsNumber ==
    (tool = "belts" /\ pc = "returned" /\ kinematics \in SymmetricKinematics) =>
        /\ result.mhi.type = "float"
        /\ 0 <= result.mhi.value
        /\ result.mhi.value <= 100 * MhiUnit

\* C19, amended: the health scoring returns the label only.  The mhi of a
\* BeltsResult is the text of the range that holds the number (clamped to
\* [1,100]) computed inside _compute_mhi, a number of [0,100] that the result
\* does not carry; without symmetric belts the mhi is None.
C19_MhiIsLabelOnly ==
    (tool = "belts" /\ pc = "returned") =>
        IF kinematics \in SymmetricKinematics
        THEN /\ result.mhi.type = "str"
             /\ result.mhi.value \in HealthLabels
             /\ 0 <= mhi.value /\ mhi.value <= 100 * MhiUnit
             /\ \E k \in 1 .. Len(ranges) :
                   /\ ranges[k][3] = result.mhi.value
                   /\ ranges[k][1] * MhiUnit < Max(mhi.value, MhiUnit)
                   /\ Max(mhi.value, MhiUnit) <= ranges[k][2] * MhiUnit
        ELSE result.mhi.type = "NoneType"

C19_Witness ==
    /\ tool = "belts"
    /\ pc = "returned"
    /\ kinematics \in SymmetricKinematics
    /\ mhi.value = 50 * MhiUnit
    /\ result.mhi.value = "Acceptable mechanical health"

\* the peaks of paired_peaks, without their frequencies and amplitudes
PairedIndices == {<<paired_peaks[i][1][1], paired_peaks[i][2][1]>> : i \in 1 .. Len(paired_peaks)}

C12_NoneSamplesTolerated ==
    /\ error.type # "IndexError"
    /\ (tool \in {"shaper", "static"} /\ pc \in {"returned", "plotted"}) =>
          result.samples = result.measurements[1].samples
    /\ (tool = "belts" /\ pc = "returned") =>
          /\ result.signal1_samples = result.measurements[1].samples
          /\ result.signal2_samples = result.measurements[2].samples

\* C13: with no valid samples at all (no measurement, or no measurement with
\* samples) the shaper and the static frequency computations fail with the
\* ValueError 'No valid data found in the provided measurements!' and nothing
\* else.
C13_NoValidDataError ==
    (tool \in {"shaper", "static"} /\ pc # "compute_start"
        /\ \A i \in 1 .. Len(measurements) : measurements[i].samples = NoSamples) =>
        /\ pc = "failed"
        /\ error.type = "ValueError"
        /\ error.message = "No valid data found in the provided measurements!"

(* ---------------- properties of ShaperComputation.compute -------------- *)
\* the shaper Klipper recommends
Nominal == backend.shapers[backend.best].name

\* the shapers with a vibration fraction below 0.05
LowVibrations(ks) == {i \in 1 .. Len(ks) : 20 * ks[i].vibrs < 1000}

\* C14 as stated: the performance shaper is a shaper of highest max_accel
\* among those with a vibration fraction below 0.05 other than the nominal
\* one, and there is none only when no such shaper exists.
C14_PerformanceDistinctFromNominal ==
    (tool = "shaper" /\ pc \in {"returned", "plotted"}) =>
        LET ks == result.shapers
            Q  == {i \in LowVibrations(ks) : ks[i].name # Nominal}
        IN  IF Q = {}
            THEN selection.perf_shaper_choice = None
            ELSE \E i \in Q :
                    /\ selection.perf_shaper_choice = ks[i].name
                    /\ \A j \in Q : ks[j].max_accel <= ks[i].max_accel

\* C14, amended: the performance shaper is the first shaper of the list with
\* the highest max_accel among those with a vibration fraction below 0.05 and
\* a max_accel above 0, the nominal one included; there is none only when no
\* such shaper exists.
C14_PerformanceAmongAll ==
    (tool = "shaper" /\ pc \in {"returned", "plotted"}) =>
        LET ks == result.shapers
            Q  == {i \in LowVibrations(ks) : ks[i].max_accel > 0}
        IN  IF Q = {}
            THEN selection.perf_shaper_choice = None
            ELSE \E i \in Q :
                    /\ selection.perf_shaper_choice = ks[i].name
                    /\ selection.perf_shaper_accel = ks[i].max_accel
                    /\ selection.perf_shaper_freq = ks[i].freq
                    /\ \A j \in Q : /\ ks[j].max_accel <= ks[i].max_accel
                                    /\ (ks[j].max_accel = ks[i].max_accel) => (i <= j)

\* the nominal shaper is itself the performance shaper although another
\* shaper has low vibrations
C14_Witness ==
    /\ tool = "shaper"
    /\ pc = "returned"
    /\ selection.perf_shaper_choice = Nominal
    /\ \E i \in LowVibrations(result.shapers) :
          /\ result.shapers[i].name # Nominal
          /\ result.shapers[i].max_accel > 0

\* C15: shaper_choices has one or two entries, the first the nominal shaper,
\* and as many entries as there are recommendations; two of them (for
\* performance, then for low vibrations) exactly when a performance shaper
\* was found, is not the nominal one and has at least its max_accel, and
\* otherwise the single 'Best shaper'.
C15_ShaperChoices ==
    (tool = "shaper" /\ pc \in {"returned", "plotted"}) =>
        LET choices == result.shaper_choices
            recs    == result.shaper_table_data.recommendations
            two     == /\ selection.perf_shaper_choice # None
                       /\ selection.perf_shaper_choice # Nominal
                       /\ selection.perf_shaper_accel >= backend.shapers[backend.best].max_accel
        IN  /\ Len(choices) \in {1, 2}
            /\ choices[1] = Upper(Nominal)
            /\ Len(recs) = Len(choices)
            /\ (Len(choices) = 2) <=> two
            /\ (Len(choices) = 2) =>
                  /\ recs[1].text = "    -> For performance: "
                  /\ recs[1].shaper = Upper(selection.perf_shaper_choice)
                  /\ recs[2].text = "    -> For low vibrations: "
                  /\ recs[2].shaper = Upper(Nominal)
                  /\ choices[2] = Upper(selection.perf_shaper_choice)
            /\ (Len(choices) = 1) =>
                  /\ recs[1].text = "    -> Best shaper: "
                  /\ recs[1].shaper = Upper(Nominal)

C15_Witness ==
    /\ tool = "shaper"
    /\ pc = "returned"
    /\ Len(result.shaper_choices) = 2
    /\ result.shaper_choices[2] # result.shaper_choices[1]
    /\ Len(result.shaper_table_data.recommendations) = 2

\* C16: the max_accel of every shaper of the result and of its table is the
\* one found with a max_smoothing of 0.001; its name, frequency, vibrations
\* and smoothing are those found with the max_smoothing of the user.
C16_MaxAccelFromSecondPass ==
    (tool = "shaper" /\ pc \in {"returned", "plotted"}) =>
        /\ Len(result.shapers) = Len(backend.shapers)
        /\ \A i \in 1 .. Len(result.shapers) :
              /\ result.shapers[i].max_accel = ShapersAtMinSmoothing(backend)[i].max_accel
              /\ result.shaper_table_data.shapers[i].max_accel
                    = ShapersAtMinSmoothing(backend)[i].max_accel
              /\ result.shapers[i].name = backend.shapers[i].name
              /\ result.shapers[i].freq = backend.shapers[i].freq
              /\ result.shapers[i].vibrs = backend.shapers[i].vibrs
              /\ result.shapers[i].smoothing = backend.shapers[i].smoothing

\* C17: a find_best_shaper that rejects the call with the damping ratio never
\* makes compute() fail with a TypeError: whenever there are samples to work
\* on a ShaperResult is returned, and its compat is True exactly when the
\* call was rejected and the older call made instead.
C17_CompatIffFallback ==
    (tool = "shaper") =>
        /\ error.type # "TypeError"
        /\ (pc = "failed") =>
              \A i \in 1 .. Len(measurements) : measurements[i].samples = NoSamples
        /\ (pc \in {"returned", "plotted"}) =>
              /\ result.type = "ShaperResult"
              /\ result.compat \in BOOLEAN
              /\ result.compat <=> backend.legacy
              /\ result.compat <=>
                    \E i \in 1 .. Len(calls) : calls[i].raised = "TypeError"
              /\ result.compat <=>
                    \E i \in 1 .. Len(calls) :
                        ~calls[i].keywords /\ calls[i].max_smoothing = MaxSmoothing

C17_Witness ==
    /\ tool = "shaper"
    /\ pc = "returned"
    /\ backend.legacy
    /\ result.compat
    /\ calls[1].raised = "TypeError"

\* the two title lines that tell of the older Klipper
CompatWarnings ==
    {"| Older Klipper version detected, damping ratio",
     "| and SCV are not used for filter recommendations!"}

\* C18: the texts that go with the recommendations of a result computed in
\* compatibility mode tell that the accuracy is reduced, whatever the name
\* of the measurement and the number of recommendations.
C18_CompatFlagged ==
    (tool = "shaper" /\ pc = "plotted" /\ result.compat) =>
        \/ titles.title_line3 \in CompatWarnings
        \/ titles.title_line4 \in CompatWarnings
        \/ \E i \in 1 .. Len(result.shaper_table_data.recommendations) :
              result.shaper_table_data.recommendations[i].text \in CompatWarnings

(* ------------------ termination of the loop of _pair_peaks ------------- *)
\* the iterations of the while loop made so far: the ones that appended a
\* pair, and the one that left the loop with peaks in both unmatched lists
PairingIterations ==
    Len(paired_peaks)
      + (IF pc = "pair_done" /\ unpaired_peaks1 # <<>> /\ unpaired_peaks2 # <<>>
         THEN 1 ELSE 0)

\* C25: the loop of _pair_peaks ends, after at most min(|P1|, |P2|)
\* iterations; an iteration either takes exactly one peak out of each
\* unmatched list and appends exactly one pair, or leaves the loop with the
\* lists as they are.
C25_PairingTerminates ==
    /\ (pc = "pair_loop") ~> (pc = "pair_done")
    /\ [](pc \in {"pair_loop", "pair_done"} =>
             PairingIterations <= Min(Len(peaks1), Len(peaks2)))
    /\ [][pc = "pair_loop" =>
             \/ /\ pc' = "pair_loop"
                /\ Len(unpaired_peaks1') = Len(unpaired_peaks1) - 1
                /\ Len(unpaired_peaks2') = Len(unpaired_peaks2) - 1
                /\ Len(paired_peaks') = Len(paired_peaks) + 1
             \/ /\ pc' = "pair_done"
                /\ UNCHANGED <<paired_peaks, unpaired_peaks1, unpaired_peaks2>>
       ]_<<pc, paired_peaks, unpaired_peaks1, unpaired_peaks2>>

\* the loop has paired as often as it can and has come to its end
C25_Witness ==
    /\ pc = "pair_done"
    /\ Len(peaks1) = MaxPeaks
    /\ Len(peaks2) = MaxPeaks
    /\ PairingIterations = MaxPeaks
    /\ Len(paired_peaks) = MaxPeaks - 1

(* --------------------- the calls of find_best_shaper ------------------- *)
\* the passes of a Klipper that accepts the damping ratio
DampingAwarePasses(b) ==
    <<Call(TRUE, MaxSmoothing, find_best_shaper(b, TRUE, MaxSmoothing)),
      Call(TRUE, MIN_SMOOTHING, find_best_shaper(b, TRUE, MIN_SMOOTHING))>>

\* the passes of a Klipper that rejects it
FallbackPasses(b) ==
    <<Call(TRUE, MaxSmoothing, find_best_shaper(b, TRUE, MaxSmoothing)),
      Call(FALSE, MaxSmoothing, find_best_shaper(b, FALSE, MaxSmoothing)),
      Call(FALSE, MIN_SMOOTHING, find_best_shaper(b, FALSE, MIN_SMOOTHING))>>

\* C26: _calibrate_shaper calls find_best_shaper either twice with the
\* damping ratio, first with the max_smoothing of the user and then with
\* MIN_SMOOTHING, or, when the first call raises a TypeError, twice more the
\* older way with the same two max_smoothing; only the first call of the
\* second sequence fails, no call with the damping ratio follows it, and the
\* nominal choice is the answer of the last call made with the max_smoothing
\* of the user.
C26_CallSequences ==
    (tool = "shaper" /\ pc \in {"returned", "plotted"}) =>
        /\ calls = IF backend.legacy THEN FallbackPasses(backend)
                   ELSE DampingAwarePasses(backend)
        /\ \A i \in 1 .. Len(calls) : (calls[i].raised = "TypeError") <=> (i = 1 /\ Len(calls) = 3)
        /\ \A i, j \in 1 .. Len(calls) :
              (i < j /\ calls[i].raised = "TypeError") => ~calls[j].keywords
        /\ calls[Len(calls) - 1].max_smoothing = MaxSmoothing
        /\ result.shaper_choices[1] = Upper(calls[Len(calls) - 1].best)

\* the older Klipper, whose two answers name different shapers
C26_Witness ==
    /\ tool = "shaper"
    /\ pc = "returned"
    /\ Len(calls) = 3
    /\ calls[1].raised = "TypeError"
    /\ calls[2].best # calls[3].best
    /\ result.shaper_choices[1] = Upper(calls[2].best)

(* ------------------- more measurements than one ------------------------ *)
\* C27: when a ShaperComputation or a StaticFrequencyComputation is given
\* more than one measurement and returns a result, the samples it has
\* analysed, datas[0], are those of the first measurement, measurements[0].
C27_FirstMeasurementAnalysed ==
    (tool \in {"shaper", "static"} /\ pc \in {"returned", "plotted"}
        /\ Len(measurements) > 1) =>
        datas[1] = measurements[1].samples

(* ----------------- similarity and health of a BeltsResult -------------- *)
\* C24: in a BeltsResult the similarity_factor and the mhi are both set when
\* the kinematics is one of limited_corexy, corexy, limited_corexz and corexz,
\* and both None otherwise; a similarity_factor that is set is the percentage
\* of the correlation brought into [0, 100], so 0 for a negative correlation.
C24_SimilarityWithMhi ==
    (tool = "belts" /\ pc = "returned") =>
        IF kinematics \in {"limited_corexy", "corexy", "limited_corexz", "corexz"}
        THEN /\ result.similarity_factor \in 0 .. 100
             /\ result.similarity_factor = similarity_factor
             /\ result.mhi.type # "NoneType"
        ELSE /\ result.similarity_factor = None
             /\ similarity_factor = None
             /\ result.mhi.type = "NoneType"

\* a CoreXY result whose similarity is at the lower end of the range
C24_Witness ==
    /\ tool = "belts"
    /\ pc = "returned"
    /\ kinematics = "corexy"
    /\ result.similarity_factor = 0
    /\ result.mhi.type # "NoneType"

(* ------------------ pairing on a stretched frequency axis -------------- *)
\* C21: with every pairwise frequency distance multiplied by a factor k >= 1
\* and the threshold computed anew from the multiplied distances, _pair_peaks
\* pairs at most as many peaks as it did before.
C21_ScalingNeverPairsMore ==
    (pc = "pair_done" /\ result.type = "PeakPairingResult") =>
        Len(paired_peaks) <= Len(result.paired_peaks)

\* peaks that were paired are left unpaired on the stretched axis
C21_Witness ==
    /\ pc = "pair_done"
    /\ result.type = "PeakPairingResult"
    /\ Len(result.paired_peaks) = MaxPeaks
    /\ Len(paired_peaks) = MaxPeaks - 1

(* ======================= KlipperCompatibility ========================== *)
\* no signal, no pairing and no health score: nothing is being computed
NoSignals ==
    /\ max_freq = None
    /\ peaks1 = None
    /\ peaks2 = None
    /\ psd1 = None
    /\ psd2 = None
    /\ threshold = None
    /\ last_scan = NoScan
    /\ paired_peaks = <<>>
    /\ unpaired_peaks1 = <<>>
    /\ unpaired_peaks2 = <<>>
    /\ similarity_factor = None
    /\ mhi = None
    /\ label = None

\* the attributes a toolhead of Klipper may have, among those looked for
ToolheadAttrs == {"set_max_velocities", "cmd_M204", "limit_next_junction_speed"}

\* the resonance testers: None, or an object with or without the attribute test
ResTesters ==
    {[none |-> TRUE, attrs |-> {}]} \cup {[none |-> FALSE, attrs |-> a] : a \in SUBSET {"test"}}

\* the accelerations asked for
Accelerations == {-3000, 1500}

\* hasattr(obj, attr_name)
hasattr(obj, attr_name) == attr_name \in obj

\* mutant of InCapabilities: the dictionary is never looked up
InCapabilitiesNever(caps, capability_name) == FALSE

\* line 34: capability_name in self._capabilities
InCapabilities(caps, capability_name) == \E e \in caps : e[1] = capability_name

\* lines 32-36: _check_capability on the dictionary caps; the dictionary
\* afterwards, the value returned and whether the object was probed
check_capability(caps, capability_name, obj, attr_name) ==
    LET probed == ~InCapabilities(caps, capability_name)
        after  == IF probed
                  THEN {e \in caps : e[1] # capability_name}
                         \cup {<<capability_name, hasattr(obj, attr_name)>>}
                  ELSE caps
    IN  [capabilities |-> after,
         value        |-> (CHOOSE e \in after : e[1] = capability_name)[2],
         probed       |-> probed]

\* one capability check, as kept in checks
Check(capability_name, c) ==
    [capability |-> capability_name, value |-> c.value, probed |-> c.probed]

\* a KlipperCompatibility just constructed
InitCompat ==
    /\ pc = "compat"
    /\ NoSignals
    /\ NoComputation
    /\ NoCreator
    /\ workers = <<>>
    /\ helpers = <<>>
    /\ capabilities = {}
    /\ toolhead \in SUBSET ToolheadAttrs
    /\ res_tester \in ResTesters
    /\ checks = <<>>
    /\ invoked = <<>>

\* lines 39-41
CanSetMaxVelocities ==
    /\ pc = "compat"
    /\ Len(checks) < MaxChecks
    /\ LET c == check_capability(capabilities, "set_max_velocities", toolhead,
                                 "set_max_velocities")
       IN  /\ capabilities' = c.capabilities
           /\ checks' = Append(checks, Check("set_max_velocities", c))
    /\ UNCHANGED <<pc, signal_vars, pairing_vars, mhi_vars, compute_vars, toolhead,
                   res_tester, invoked, creator_vars, concurrent_vars>>

\* lines 43-45
CanUseCmdM204 ==
    /\ pc = "compat"
    /\ Len(checks) < MaxChecks
    /\ LET c == check_capability(capabilities, "cmd_m204", toolhead, "cmd_M204")
       IN  /\ capabilities' = c.capabilities
           /\ checks' = Append(checks, Check("cmd_m204", c))
    /\ UNCHANGED <<pc, signal_vars, pairing_vars, mhi_vars, compute_vars, toolhead,
                   res_tester, invoked, creator_vars, concurrent_vars>>

\* lines 47-49
CanLimitJunctionSpeed ==
    /\ pc = "compat"
    /\ Len(checks) < MaxChecks
    /\ LET c == check_capability(capabilities, "limit_junction_speed", toolhead,
                                 "limit_next_junction_speed")
       IN  /\ capabilities' = c.capabilities
           /\ checks' = Append(checks, Check("limit_junction_speed", c))
    /\ UNCHANGED <<pc, signal_vars, pairing_vars, mhi_vars, compute_vars, toolhead,
                   res_tester, invoked, creator_vars, concurrent_vars>>

\* lines 52-56: without a resonance tester the answer is False and nothing
\* is probed or cached
HasLegacyResTesterApi ==
    /\ pc = "compat"
    /\ Len(checks) < MaxChecks
    /\ IF res_tester.none
       THEN /\ checks' = Append(checks, [capability |-> "legacy_res_tester",
                                         value |-> FALSE, probed |-> FALSE])
            /\ UNCHANGED capabilities
       ELSE LET c == check_capability(capabilities, "legacy_res_tester",
                                      res_tester.attrs, "test")
            IN  /\ capabilities' = c.capabilities
                /\ checks' = Append(checks, Check("legacy_res_tester", c))
    /\ UNCHANGED <<pc, signal_vars, pairing_vars, mhi_vars, compute_vars, toolhead,
                   res_tester, invoked, creator_vars, concurrent_vars>>

\* one call of set_toolhead_acceleration, as kept in invoked: the toolhead
\* at the time of the call, the methods invoked on it and the exception
Invocation(accel, methods, raised) ==
    [accel |-> accel, toolhead |-> toolhead, methods |-> methods, raised |-> raised]

\* self.toolhead.<method>(...) with the acceleration: the method runs, or
\* the toolhead does not have it any more
Invoke(accel, method) ==
    IF hasattr(toolhead, method)
    THEN Invocation(accel, <<[method |-> method, accel |-> Abs(accel)]>>, None)
    ELSE Invocation(accel, <<>>, "AttributeError")

\* lines 65-75: set_toolhead_acceleration
SetToolheadAcceleration ==
    /\ pc = "compat"
    /\ Len(checks) + 2 <= MaxChecks
    /\ \E accel \in Accelerations :
          LET c1 == check_capability(capabilities, "set_max_velocities", toolhead,
                                     "set_max_velocities")
              c2 == check_capability(c1.capabilities, "cmd_m204", toolhead, "cmd_M204")
          IN  IF c1.value
              THEN /\ capabilities' = c1.capabilities
                   /\ checks' = Append(checks, Check("set_max_velocities", c1))
                   /\ invoked' = Append(invoked, Invoke(accel, "set_max_velocities"))
              ELSE /\ capabilities' = c2.capabilities
                   /\ checks' = checks \o <<Check("set_max_velocities", c1),
                                            Check("cmd_m204", c2)>>
                   /\ invoked' = Append(invoked,
                         IF c2.value
                         THEN Invoke(accel, "cmd_M204")
                         ELSE Invocation(accel, <<>>, "NotImplementedError"))
    /\ UNCHANGED <<pc, signal_vars, pairing_vars, mhi_vars, compute_vars, toolhead,
                   res_tester, creator_vars, concurrent_vars>>

\* another part of Klipper adds an attribute to the toolhead or removes one
ToolheadChanges ==
    /\ pc = "compat"
    /\ \E a \in ToolheadAttrs :
          toolhead' = IF a \in toolhead THEN toolhead \ {a} ELSE toolhead \cup {a}
    /\ UNCHANGED <<pc, signal_vars, pairing_vars, mhi_vars, compute_vars, capabilities,
                   res_tester, checks, invoked, creator_vars, concurrent_vars>>

\* the resonance tester gains or loses its attribute test
ResTesterChanges ==
    /\ pc = "compat"
    /\ ~res_tester.none
    /\ res_tester' = [res_tester EXCEPT !.attrs = IF "test" \in @ THEN {} ELSE {"test"}]
    /\ UNCHANGED <<pc, signal_vars, pairing_vars, mhi_vars, compute_vars, capabilities,
                   toolhead, checks, invoked, creator_vars, concurrent_vars>>

NextCompat ==
    \/ CanSetMaxVelocities
    \/ CanUseCmdM204
    \/ CanLimitJunctionSpeed
    \/ HasLegacyResTesterApi
    \/ SetToolheadAcceleration
    \/ ToolheadChanges
    \/ ResTesterChanges

SpecCompat == InitCompat /\ [][NextCompat]_vars

\* C29: once a capability has been checked on a KlipperCompatibility, every
\* later check of it returns the value of the first check and does not probe
\* the object again, whatever attributes the object has gained or lost since.
C29_CapabilityCached ==
    (pc = "compat") =>
        \A i, j \in 1 .. Len(checks) :
            (i < j /\ checks[i].capability = checks[j].capability) =>
                /\ checks[j].value = checks[i].value
                /\ ~checks[j].probed

\* a capability checked again after the toolhead has lost the method
C29_Witness ==
    /\ pc = "compat"
    /\ Len(checks) >= 2
    /\ checks[1].capability = "set_max_velocities"
    /\ checks[1].value
    /\ checks[1].probed
    /\ checks[2].capability = "set_max_velocities"
    /\ checks[2].value
    /\ ~hasattr(toolhead, "set_max_velocities")

\* C30: every call of set_toolhead_acceleration invokes exactly one method,
\* with abs(accel): set_max_velocities when the toolhead has it, cmd_M204
\* when it has not, and the gcode fallback when the toolhead has neither.
C30_ExactlyOneMethod ==
    (pc = "compat") =>
        \A i \in 1 .. Len(invoked) :
            /\ invoked[i].raised = None
            /\ Len(invoked[i].methods) = 1
            /\ invoked[i].methods[1].accel = Abs(invoked[i].accel)
            /\ invoked[i].methods[1].method =
                  IF "set_max_velocities" \in invoked[i].toolhead THEN "set_max_velocities"
                  ELSE IF "cmd_M204" \in invoked[i].toolhead THEN "cmd_M204"
                  ELSE "gcode"

(* ============================ GraphCreator ============================= *)
\* the names of the results
Stems == {"belts_1", "belts_2"}

\* the paths define_output_target is called with
FilePaths == {[stem |-> s, suffix |-> x] : s \in Stems, x \in {"", ".png", ".stdata"}}

\* Path.with_suffix
with_suffix(path, suffix) == [stem |-> path.stem, suffix |-> suffix]

\* the raw data files that may be in the results folder before a graph is made
RawFiles == {[stem |-> s, suffix |-> ".stdata"] : s \in Stems}

\* mutant of RawDataDeleted: the configuration is not looked at
RawDataDeletedAlways(keep) == TRUE

\* line 74: if not self._config.keep_raw_data
RawDataDeleted(keep) == ~keep

\* the ValueError of _save_figure
OutputTargetError ==
    [type |-> "ValueError",
     message |-> "Output target not defined. Please call define_output_target() before trying to save the figure!"]

\* the exception of a savefig that cannot write the file
SaveError == [type |-> "OSError", message |-> ""]

\* the exception of a plot that fails
PlotError == [type |-> "Exception", message |-> ""]

\* a GraphCreator just constructed
InitCreator ==
    /\ pc = "creator"
    /\ NoSignals
    /\ NoComputation
    /\ NoCompat
    /\ workers = <<>>
    /\ helpers = <<>>
    /\ output_target = NoPath
    /\ keep_raw_data \in BOOLEAN
    /\ files \in SUBSET RawFiles
    /\ steps = <<>>

\* lines 85-90: define_output_target
DefineOutputTarget ==
    /\ pc = "creator"
    /\ \E filepath \in FilePaths :
          output_target' = IF filepath.suffix # "" THEN with_suffix(filepath, "")
                           ELSE filepath
    /\ UNCHANGED <<pc, signal_vars, pairing_vars, mhi_vars, compute_vars, compat_vars,
                   concurrent_vars, keep_raw_data, files, steps>>

\* lines 61-62: the computation is created and compute() returns or raises
CreateGraphCompute ==
    /\ pc = "creator"
    /\ Len(steps) + 3 <= 3 * MaxGraphs
    /\ steps' = Append(steps, "compute")
    /\ \/ /\ result' = [type |-> "ComputationResult"]
          /\ error' = Nothing
          /\ pc' = "computed"
       \/ /\ result' = Nothing
          /\ error' \in {NoValidDataError, IndexError}
          /\ pc' = "creator"
    /\ UNCHANGED <<signal_vars, pairing_vars, mhi_vars, tool, measurements, kinematics,
                   datas, backend, selection, calls, titles, compat_vars,
                   concurrent_vars, output_target, keep_raw_data, files>>

\* line 63: the plotter draws the figure, or fails
CreateGraphPlot ==
    /\ pc = "computed"
    /\ steps' = Append(steps, "plot")
    /\ \/ pc' = "plotted" /\ UNCHANGED error
       \/ pc' = "creator" /\ error' = PlotError
    /\ UNCHANGED <<signal_vars, pairing_vars, mhi_vars, tool, measurements, kinematics,
                   datas, backend, selection, calls, titles, result, compat_vars,
                   concurrent_vars, output_target, keep_raw_data, files>>

\* lines 64-75: _save_figure
CreateGraphSave ==
    /\ pc = "plotted"
    /\ steps' = Append(steps, "save")
    /\ pc' = "creator"
    /\ IF output_target = NoPath
       THEN /\ error' = OutputTargetError
            /\ UNCHANGED files
       ELSE \/ /\ files' = (files \cup {with_suffix(output_target, ".png")})
                             \ (IF RawDataDeleted(keep_raw_data)
                                THEN {with_suffix(output_target, ".stdata")}
                                ELSE {})
               /\ UNCHANGED error
            \/ /\ error' = SaveError
               /\ UNCHANGED files
    /\ UNCHANGED <<signal_vars, pairing_vars, mhi_vars, tool, measurements, kinematics,
                   datas, backend, selection, calls, titles, result, compat_vars,
                   concurrent_vars, output_target, keep_raw_data>>

NextCreator ==
    \/ DefineOutputTarget
    \/ CreateGraphCompute
    \/ CreateGraphPlot
    \/ CreateGraphSave

SpecCreator == InitCreator /\ [][NextCreator]_vars

\* C28: create_graph runs compute, then plot, then save: a plot directly
\* follows a compute and a save directly follows a plot.  A save without an
\* output target raises the ValueError and leaves the files as they are.  The
\* files change only in a save with an output target: the PNG of the target
\* is then there, nothing else is added, nothing but the .stdata of the target
\* is removed, and that only when keep_raw_data is false.
C28_ComputePlotSave ==
    /\ [](pc \in {"creator", "computed", "plotted"} =>
            \A i \in 1 .. Len(steps) :
                /\ steps[i] = "plot" => (i > 1 /\ steps[i - 1] = "compute")
                /\ steps[i] = "save" => (i > 1 /\ steps[i - 1] = "plot")
                /\ (i > 1 /\ steps[i - 1] = "save") => steps[i] = "compute")
    /\ [][(pc = "plotted" /\ output_target = NoPath) =>
             (error'.type = "ValueError" /\ files' = files)]_<<pc, steps>>
    /\ [][/\ pc = "plotted"
          /\ output_target # NoPath
          /\ with_suffix(output_target, ".png") \in files'
          /\ files' \ files \subseteq {with_suffix(output_target, ".png")}
          /\ files \ files' \subseteq {with_suffix(output_target, ".stdata")}
          /\ (files \ files' # {}) => ~keep_raw_data]_files

\* a graph saved next to the raw data of another one, its own raw data gone
C28_Witness ==
    /\ pc = "creator"
    /\ steps = <<"compute", "plot", "save">>
    /\ ~keep_raw_data
    /\ output_target = [stem |-> "belts_1", suffix |-> ""]
    /\ files = {[stem |-> "belts_1", suffix |-> ".png"],
                [stem |-> "belts_2", suffix |-> ".stdata"]}

(* ============================ detect_peaks ============================= *)
\* the signal of the scenario: [0, 1, 5, 1, 0, 0, 3, 1, 0]
ScenarioSignal == [i \in 0 .. 8 |-> <<0, 1, 5, 1, 0, 0, 3, 1, 0>>[i + 1]]

\* the signals detect_peaks is called with: the empty one, every signal of
\* the grid and the one of the scenario
DetectSignals ==
    {[i \in {} |-> 0], ScenarioSignal} \cup [Bins -> 0 .. MaxPsd]

\* the arguments of a call other than the signal: a threshold, a window
\* size of 1 or 2 and a vicinity of 1, 2 or 3
DetectArguments ==
    {[type |-> "detect_peaks", threshold |-> t, window_size |-> w, vicinity |-> v,
      returns |-> <<>>] : t \in 0 .. (MaxPsd + 1), w \in 1 .. 2, v \in 1 .. 3}

\* the candidates: at or above the threshold and the maximum of their window
Candidates(signal, thr, window_size) ==
    {i \in DOMAIN signal :
        /\ signal[i] >= thr
        /\ \A j \in DOMAIN signal : Abs(i - j) <= window_size => signal[j] <= signal[i]}

\* mutant of Higher: of two candidates that are merged the later one is kept
Later(signal, a, b) == b

\* of two candidates that are merged, the one of higher amplitude
Higher(signal, a, b) == IF signal[b] > signal[a] THEN b ELSE a

\* the candidates in ascending order, those closer than vicinity merged
RECURSIVE MergeFrom(_, _, _, _)
MergeFrom(signal, todo, vicinity, kept) ==
    IF todo = <<>> THEN kept
    ELSE IF kept # <<>> /\ Head(todo) - kept[Len(kept)] < vicinity
    THEN MergeFrom(signal, Tail(todo), vicinity,
                   [kept EXCEPT ![Len(kept)] = Higher(signal, @, Head(todo))])
    ELSE MergeFrom(signal, Tail(todo), vicinity, Append(kept, Head(todo)))

\* detect_peaks: the count and the indices (the x values follow the indices)
detect_peaks(signal, thr, window_size, vicinity) ==
    LET indices == MergeFrom(signal, SeqOfSet(Candidates(signal, thr, window_size)),
                             vicinity, <<>>)
    IN  [count |-> Len(indices), indices |-> indices]

\* a signal and the arguments detect_peaks is going to be called with
InitDetectPeaks ==
    /\ pc = "detect"
    /\ psd1 \in DetectSignals
    /\ result \in DetectArguments
    /\ max_freq = None
    /\ peaks1 = <<>>
    /\ peaks2 = None
    /\ psd2 = None
    /\ threshold = None
    /\ last_scan = NoScan
    /\ paired_peaks = <<>>
    /\ unpaired_peaks1 = <<>>
    /\ unpaired_peaks2 = <<>>
    /\ similarity_factor = None
    /\ mhi = None
    /\ label = None
    /\ tool = None
    /\ measurements = <<>>
    /\ kinematics = None
    /\ datas = <<>>
    /\ backend = None
    /\ selection = None
    /\ calls = <<>>
    /\ titles = Nothing
    /\ error = Nothing
    /\ NoService

\* one call of detect_peaks on the signal
DetectPeaks ==
    /\ pc = "detect"
    /\ Len(result.returns) < MaxDetections
    /\ LET r == detect_peaks(psd1, result.threshold, result.window_size, result.vicinity)
       IN  /\ result' = [result EXCEPT !.returns = Append(@, r)]
           /\ peaks1' = r.indices
    /\ UNCHANGED <<pc, max_freq, peaks2, psd1, psd2, pairing_vars, mhi_vars, tool,
                   measurements, kinematics, datas, backend, selection, calls, titles,
                   error, compat_vars, creator_vars, concurrent_vars>>

NextDetectPeaks == DetectPeaks

SpecDetectPeaks == InitDetectPeaks /\ [][NextDetectPeaks]_vars

\* C23: what detect_peaks returns.  The indices are in ascending order and
\* count is their number; each is at or above the threshold and the maximum
\* of its window; no two are closer than vicinity, and every candidate left
\* out is closer than vicinity to another candidate that is at least as high;
\* a repeated call returns the same; an empty signal or one that is below the
\* threshold everywhere gives count 0; the signal of the scenario with a
\* threshold of 2 gives the indices 2 and 6.
C23_DetectPeaks ==
    (pc = "detect") =>
        \A n \in 1 .. Len(result.returns) :
            LET r == result.returns[n]
                cand == Candidates(psd1, result.threshold, result.window_size)
                kept == {r.indices[k] : k \in 1 .. Len(r.indices)}
            IN  /\ r.count = Len(r.indices)
                /\ \A k \in 1 .. (Len(r.indices) - 1) :
                      r.indices[k + 1] - r.indices[k] >= Max(1, result.vicinity)
                /\ kept \subseteq cand
                /\ \A i \in cand \ kept :
                      \E j \in cand \ {i} : /\ Abs(i - j) < result.vicinity
                                             /\ psd1[j] >= psd1[i]
                /\ r = result.returns[1]
                /\ (\A i \in DOMAIN psd1 : psd1[i] < result.threshold) => r.count = 0
                /\ (psd1 = ScenarioSignal /\ result.threshold = 2) => r.indices = <<2, 6>>

\* two calls on a signal with two candidates next to each other, merged
C23_Witness ==
    /\ pc = "detect"
    /\ Len(result.returns) = MaxDetections
    /\ Cardinality(Candidates(psd1, result.threshold, result.window_size)) = 3
    /\ result.returns[1].count = 2
    /\ DOMAIN psd1 = Bins

(* =================== computations that run side by side ================ *)
\* the two computations
Computations == {1, 2}

\* the measurements of computation w: two captures of its own
OwnMeasurements(w) ==
    {<<[name |-> a, samples |-> a], [name |-> b, samples |-> b]>> :
        a \in {2 * w - 1, 2 * w}, b \in {2 * w - 1, 2 * w}}

\* mutant of get_shaper_calibrate_module: one ShaperCalibrate for every call
get_single_shaper_calibrate(heap) == 1

\* get_shaper_calibrate_module: ShaperCalibrate(printer=None) is a new
\* object at every call; its place among the objects created so far
get_shaper_calibrate_module(heap) == Len(heap) + 1

\* the ShaperCalibrate object: no printer, and the data it is working on
ShaperCalibrate == [printer |-> None, data |-> NoSamples]

\* what compute() returns for the measurements ms when it runs alone
AloneResult(ms) ==
    [type         |-> "BeltsResult",
     measurements |-> ms,
     signal1      |-> ValidSamples(ms)[1],
     signal2      |-> ValidSamples(ms)[2]]

\* two BeltsComputation constructed, each with its own measurements
InitConcurrent ==
    /\ pc = "workers"
    /\ NoSignals
    /\ NoComputation
    /\ NoCompat
    /\ NoCreator
    /\ helpers = <<>>
    /\ \E m1 \in OwnMeasurements(1), m2 \in OwnMeasurements(2) :
          workers = [w \in Computations |->
                        [pc           |-> "start",
                         measurements |-> IF w = 1 THEN m1 ELSE m2,
                         datas        |-> <<>>,
                         helper       |-> 0,
                         signals      |-> <<>>,
                         result       |-> Nothing]]

\* lines 55-61: the cardinality check and the local datas
WorkerStart ==
    \E w \in Computations :
        /\ workers[w].pc = "start"
        /\ BeltsCardinalityOk(workers[w].measurements)
        /\ workers' = [workers EXCEPT ![w].datas = ValidSamples(workers[w].measurements),
                                      ![w].pc = "module"]
        /\ UNCHANGED <<pc, signal_vars, pairing_vars, mhi_vars, compute_vars, compat_vars,
                       creator_vars, helpers>>

\* line 133: the helper object of _compute_signal_data
WorkerModule ==
    \E w \in Computations :
        /\ workers[w].pc = "module"
        /\ LET h == get_shaper_calibrate_module(helpers)
           IN  /\ helpers' = IF h > Len(helpers) THEN Append(helpers, ShaperCalibrate)
                             ELSE helpers
               /\ workers' = [workers EXCEPT ![w].helper = h, ![w].pc = "process"]
        /\ UNCHANGED <<pc, signal_vars, pairing_vars, mhi_vars, compute_vars, compat_vars,
                       creator_vars>>

\* line 134: process_accelerometer_data takes the data in
WorkerProcess ==
    \E w \in Computations :
        /\ workers[w].pc = "process"
        /\ helpers' = [helpers EXCEPT ![workers[w].helper].data =
                          workers[w].datas[Len(workers[w].signals) + 1]]
        /\ workers' = [workers EXCEPT ![w].pc = "read"]
        /\ UNCHANGED <<pc, signal_vars, pairing_vars, mhi_vars, compute_vars, compat_vars,
                       creator_vars>>

\* lines 134-151: the calibration data come back and become the SignalData
WorkerSignal ==
    \E w \in Computations :
        /\ workers[w].pc = "read"
        /\ workers' = [workers EXCEPT
                          ![w].signals = Append(@, helpers[workers[w].helper].data),
                          ![w].pc = IF Len(workers[w].signals) = 1 THEN "finish"
                                    ELSE "module"]
        /\ UNCHANGED <<pc, signal_vars, pairing_vars, mhi_vars, compute_vars, compat_vars,
                       creator_vars, helpers>>

\* lines 117-130: the BeltsResult
WorkerReturn ==
    \E w \in Computations :
        /\ workers[w].pc = "finish"
        /\ workers' = [workers EXCEPT
                          ![w].result = [type         |-> "BeltsResult",
                                         measurements |-> workers[w].measurements,
                                         signal1      |-> workers[w].signals[1],
                                         signal2      |-> workers[w].signals[2]],
                          ![w].pc = "returned"]
        /\ UNCHANGED <<pc, signal_vars, pairing_vars, mhi_vars, compute_vars, compat_vars,
                       creator_vars, helpers>>

NextConcurrent ==
    \/ WorkerStart
    \/ WorkerModule
    \/ WorkerProcess
    \/ WorkerSignal
    \/ WorkerReturn

SpecConcurrent == InitConcurrent /\ [][NextConcurrent]_vars

\* C22: two computations that each own their measurements, their steps
\* interleaved in any way: each returns what it returns when it runs alone,
\* no ShaperCalibrate object is used by both, and no step of one changes the
\* measurements, the datas, the signals or the result of the other.
C22_Independent ==
    /\ [](pc = "workers" =>
            /\ \A w \in Computations :
                  workers[w].pc = "returned" =>
                      workers[w].result = AloneResult(workers[w].measurements)
            /\ \A w, x \in Computations :
                  (w # x /\ workers[w].helper # 0) =>
                      workers[w].helper # workers[x].helper)
    /\ [][\E w \in Computations :
             \A x \in Computations \ {w} : workers'[x] = workers[x]]_workers
    /\ [][\A w \in Computations :
             workers'[w].measurements = workers[w].measurements]_workers

\* both computations have returned, one having started in the middle of the other
C22_Witness ==
    /\ pc = "workers"
    /\ workers[1].pc = "returned"
    /\ workers[2].pc = "returned"
    /\ workers[1].helper = 3
    /\ workers[2].helper = 4
    /\ workers[1].result.signal1 # workers[2].result.signal1

====
